---- MODULE Spec2Model ----
(***************************************************************************)
(* Model of the enquesefue backend: the expense ingestion pipeline         *)
(* (app/services/expense_service.py), the WhatsApp webhook dispatcher and  *)
(* the link-PIN issuer (app/routers/whatsapp.py), over the store described *)
(* by app/models/*.py.                                                     *)
(*                                                                         *)
(* Time is an abstract clock `now`; datetimes are integers on that clock.  *)
(* Day and PinTtl are the two durations the code uses (timedelta(days=1)   *)
(* and timedelta(minutes=10)); they are scaled to two ticks and one tick,  *)
(* which is enough to put a date on, inside and outside each boundary.     *)
(* Python None / SQL NULL is "NULL" for strings, NoDate for datetimes and  *)
(* 0 for row ids.                                                          *)
(***************************************************************************)
EXTENDS Integers, Sequences, FiniteSets, TLC

\* ---------------------------------------------------------------- bounds
MaxNow == 1
MaxTokens == 2
MaxUsers == 2
MaxPrivate == 4
MaxBytes == 2

\* ------------------------------------------------------------- constants
Day == 2
PinTtl == 1

NULL == "NULL"
NoDate == -1

\* ------------------------------------------------------------ the schema
\* A mapped class Expense that also declares file_hash.
ExpenseColumns_with_file_hash ==
  {"id", "user_id", "amount", "currency", "description", "category_id",
   "date", "source", "raw_input", "file_hash", "created_at", "user", "category"}

\* Attributes of the mapped class Expense (columns and relationships).
ExpenseColumns ==
  {"id", "user_id", "amount", "currency", "description", "category_id",
   "date", "source", "raw_input", "created_at", "user", "category"}

\* Global categories seeded at start-up.
default_categories ==
  <<"Alimentación", "Transporte", "Hogar", "Entretenimiento", "Ropa",
    "Salud", "Tecnología", "Educación", "Trabajo", "Servicios", "Regalos",
    "Otros">>

\* --------------------------------------------------------------- inputs
Pins == {"111111", "222222"}

\* ------------------------------------------------------------ settings
\* Settings: environment and the Twilio credentials. "" is unset.
Settings(environment, twilio_account_sid, twilio_auth_token) ==
  [environment |-> environment, twilio_account_sid |-> twilio_account_sid,
   twilio_auth_token |-> twilio_auth_token]

\* The defaults of app/config.py.
Development == Settings("development", "", "")

VARIABLES
  users,        \* table users: id = index
  tokens,       \* table whatsapp_link_tokens: id = index
  categories,   \* table categories: id = index, user_id 0 = global (NULL)
  expenses,     \* table expenses: id = index
  now,          \* the clock
  redeemedBy,   \* history: token id -> identity that redeemed it, or NULL
  last,         \* the last request handled and its outcome
  inflight,     \* requests being handled: each one's position and locals
  settings      \* the deployment's configuration (app/config.py), fixed at start

vars == <<users, tokens, categories, expenses, now, redeemedBy, last, inflight,
         settings>>

\* ------------------------------------------------------ extractor output
\* ExpenseParsed values the extractors can hand to the pipeline.
\* NoCandidate is the extractors' None.
NoCandidate == [amount |-> 0, currency |-> "", description |-> "",
                category_name |-> "", date |-> NoDate]

ExpenseParsed(t) ==
  {[amount |-> 150, currency |-> "MXN", description |-> "super",
    category_name |-> "Alimentación", date |-> d] : d \in {t, 1, 5, 8, 9}}
  \cup {[amount |-> 150, currency |-> "", description |-> "super",
         category_name |-> "Alimentación", date |-> 5],
        [amount |-> 99, currency |-> "MXN", description |-> "croquetas",
         category_name |-> "Mascotas", date |-> t]}

\* ---------------------------------------------------------------- SHA-256
\* hashlib.sha256 (FIPS 180-4) on a sequence of bytes. A 32-bit word is the
\* pair <<high half, low half>> of its 16-bit halves.

\* a XOR b and a AND b for 4-bit a and b, at [a + 1][b + 1].
XorNibble ==
  <<
    << 0,  1,  2,  3,  4,  5,  6,  7,  8,  9, 10, 11, 12, 13, 14, 15>>,
    << 1,  0,  3,  2,  5,  4,  7,  6,  9,  8, 11, 10, 13, 12, 15, 14>>,
    << 2,  3,  0,  1,  6,  7,  4,  5, 10, 11,  8,  9, 14, 15, 12, 13>>,
    << 3,  2,  1,  0,  7,  6,  5,  4, 11, 10,  9,  8, 15, 14, 13, 12>>,
    << 4,  5,  6,  7,  0,  1,  2,  3, 12, 13, 14, 15,  8,  9, 10, 11>>,
    << 5,  4,  7,  6,  1,  0,  3,  2, 13, 12, 15, 14,  9,  8, 11, 10>>,
    << 6,  7,  4,  5,  2,  3,  0,  1, 14, 15, 12, 13, 10, 11,  8,  9>>,
    << 7,  6,  5,  4,  3,  2,  1,  0, 15, 14, 13, 12, 11, 10,  9,  8>>,
    << 8,  9, 10, 11, 12, 13, 14, 15,  0,  1,  2,  3,  4,  5,  6,  7>>,
    << 9,  8, 11, 10, 13, 12, 15, 14,  1,  0,  3,  2,  5,  4,  7,  6>>,
    <<10, 11,  8,  9, 14, 15, 12, 13,  2,  3,  0,  1,  6,  7,  4,  5>>,
    <<11, 10,  9,  8, 15, 14, 13, 12,  3,  2,  1,  0,  7,  6,  5,  4>>,
    <<12, 13, 14, 15,  8,  9, 10, 11,  4,  5,  6,  7,  0,  1,  2,  3>>,
    <<13, 12, 15, 14,  9,  8, 11, 10,  5,  4,  7,  6,  1,  0,  3,  2>>,
    <<14, 15, 12, 13, 10, 11,  8,  9,  6,  7,  4,  5,  2,  3,  0,  1>>,
    <<15, 14, 13, 12, 11, 10,  9,  8,  7,  6,  5,  4,  3,  2,  1,  0>>
  >>

AndNibble ==
  <<
    << 0,  0,  0,  0,  0,  0,  0,  0,  0,  0,  0,  0,  0,  0,  0,  0>>,
    << 0,  1,  0,  1,  0,  1,  0,  1,  0,  1,  0,  1,  0,  1,  0,  1>>,
    << 0,  0,  2,  2,  0,  0,  2,  2,  0,  0,  2,  2,  0,  0,  2,  2>>,
    << 0,  1,  2,  3,  0,  1,  2,  3,  0,  1,  2,  3,  0,  1,  2,  3>>,
    << 0,  0,  0,  0,  4,  4,  4,  4,  0,  0,  0,  0,  4,  4,  4,  4>>,
    << 0,  1,  0,  1,  4,  5,  4,  5,  0,  1,  0,  1,  4,  5,  4,  5>>,
    << 0,  0,  2,  2,  4,  4,  6,  6,  0,  0,  2,  2,  4,  4,  6,  6>>,
    << 0,  1,  2,  3,  4,  5,  6,  7,  0,  1,  2,  3,  4,  5,  6,  7>>,
    << 0,  0,  0,  0,  0,  0,  0,  0,  8,  8,  8,  8,  8,  8,  8,  8>>,
    << 0,  1,  0,  1,  0,  1,  0,  1,  8,  9,  8,  9,  8,  9,  8,  9>>,
    << 0,  0,  2,  2,  0,  0,  2,  2,  8,  8, 10, 10,  8,  8, 10, 10>>,
    << 0,  1,  2,  3,  0,  1,  2,  3,  8,  9, 10, 11,  8,  9, 10, 11>>,
    << 0,  0,  0,  0,  4,  4,  4,  4,  8,  8,  8,  8, 12, 12, 12, 12>>,
    << 0,  1,  0,  1,  4,  5,  4,  5,  8,  9,  8,  9, 12, 13, 12, 13>>,
    << 0,  0,  2,  2,  4,  4,  6,  6,  8,  8, 10, 10, 12, 12, 14, 14>>,
    << 0,  1,  2,  3,  4,  5,  6,  7,  8,  9, 10, 11, 12, 13, 14, 15>>
  >>

\* A 4-bit operation applied to each of the four nibbles of 16-bit a and b.
Nibbles(T, a, b) ==
  T[(a % 16) + 1][(b % 16) + 1]
  + 16 * T[((a \div 16) % 16) + 1][((b \div 16) % 16) + 1]
  + 256 * T[((a \div 256) % 16) + 1][((b \div 256) % 16) + 1]
  + 4096 * T[(a \div 4096) + 1][(b \div 4096) + 1]

XOR(x, y) ==
  <<Nibbles(XorNibble, x[1], y[1]), Nibbles(XorNibble, x[2], y[2])>>

AND(x, y) ==
  <<Nibbles(AndNibble, x[1], y[1]), Nibbles(AndNibble, x[2], y[2])>>

NOT(x) == <<65535 - x[1], 65535 - x[2]>>

\* Addition modulo 2^32.
ADD(x, y) ==
  LET lo == x[2] + y[2]
      hi == x[1] + y[1] + (lo \div 65536)
  IN <<hi % 65536, lo % 65536>>

\* Rotation and shift to the right by n bits, 0 < n < 32.
ROTR(x, n) ==
  LET v == IF n < 16 THEN x ELSE <<x[2], x[1]>>
      k == IF n < 16 THEN n ELSE n - 16
  IN IF k = 0 THEN v
     ELSE <<(v[1] \div 2^k) + (v[2] % 2^k) * 2^(16 - k),
            (v[2] \div 2^k) + (v[1] % 2^k) * 2^(16 - k)>>

SHR(x, n) ==
  IF n < 16
    THEN <<x[1] \div 2^n, (x[2] \div 2^n) + (x[1] % 2^n) * 2^(16 - n)>>
  ELSE <<0, x[1] \div 2^(n - 16)>>

Ch(x, y, z) == XOR(AND(x, y), AND(NOT(x), z))

Maj(x, y, z) == XOR(XOR(AND(x, y), AND(x, z)), AND(y, z))

BigSigma0(x) == XOR(XOR(ROTR(x, 2), ROTR(x, 13)), ROTR(x, 22))

BigSigma1(x) == XOR(XOR(ROTR(x, 6), ROTR(x, 11)), ROTR(x, 25))

SmallSigma0(x) == XOR(XOR(ROTR(x, 7), ROTR(x, 18)), SHR(x, 3))

SmallSigma1(x) == XOR(XOR(ROTR(x, 17), ROTR(x, 19)), SHR(x, 10))

\* The initial hash value and the round constants.
SHA256_H0 ==
  <<
    <<\h6a09, \he667>>, <<\hbb67, \hae85>>, <<\h3c6e, \hf372>>, <<\ha54f, \hf53a>>,
    <<\h510e, \h527f>>, <<\h9b05, \h688c>>, <<\h1f83, \hd9ab>>, <<\h5be0, \hcd19>>
  >>

SHA256_K ==
  <<
    <<\h428a, \h2f98>>, <<\h7137, \h4491>>, <<\hb5c0, \hfbcf>>, <<\he9b5, \hdba5>>,
    <<\h3956, \hc25b>>, <<\h59f1, \h11f1>>, <<\h923f, \h82a4>>, <<\hab1c, \h5ed5>>,
    <<\hd807, \haa98>>, <<\h1283, \h5b01>>, <<\h2431, \h85be>>, <<\h550c, \h7dc3>>,
    <<\h72be, \h5d74>>, <<\h80de, \hb1fe>>, <<\h9bdc, \h06a7>>, <<\hc19b, \hf174>>,
    <<\he49b, \h69c1>>, <<\hefbe, \h4786>>, <<\h0fc1, \h9dc6>>, <<\h240c, \ha1cc>>,
    <<\h2de9, \h2c6f>>, <<\h4a74, \h84aa>>, <<\h5cb0, \ha9dc>>, <<\h76f9, \h88da>>,
    <<\h983e, \h5152>>, <<\ha831, \hc66d>>, <<\hb003, \h27c8>>, <<\hbf59, \h7fc7>>,
    <<\hc6e0, \h0bf3>>, <<\hd5a7, \h9147>>, <<\h06ca, \h6351>>, <<\h1429, \h2967>>,
    <<\h27b7, \h0a85>>, <<\h2e1b, \h2138>>, <<\h4d2c, \h6dfc>>, <<\h5338, \h0d13>>,
    <<\h650a, \h7354>>, <<\h766a, \h0abb>>, <<\h81c2, \hc92e>>, <<\h9272, \h2c85>>,
    <<\ha2bf, \he8a1>>, <<\ha81a, \h664b>>, <<\hc24b, \h8b70>>, <<\hc76c, \h51a3>>,
    <<\hd192, \he819>>, <<\hd699, \h0624>>, <<\hf40e, \h3585>>, <<\h106a, \ha070>>,
    <<\h19a4, \hc116>>, <<\h1e37, \h6c08>>, <<\h2748, \h774c>>, <<\h34b0, \hbcb5>>,
    <<\h391c, \h0cb3>>, <<\h4ed8, \haa4a>>, <<\h5b9c, \hca4f>>, <<\h682e, \h6ff3>>,
    <<\h748f, \h82ee>>, <<\h78a5, \h636f>>, <<\h84c8, \h7814>>, <<\h8cc7, \h0208>>,
    <<\h90be, \hfffa>>, <<\ha450, \h6ceb>>, <<\hbef9, \ha3f7>>, <<\hc671, \h78f2>>
  >>

\* A padding of zero bytes alone, up to the end of the block.
sha256_pad_zeros(message) ==
  message \o [i \in 1..(64 - (Len(message) % 64)) |-> 0]

\* The message followed by 0x80, zero bytes up to 56 modulo 64, and the
\* length in bits as eight big-endian bytes.
sha256_pad(message) ==
  LET bits == 8 * Len(message)
      zeros == [i \in 1..((55 - Len(message)) % 64) |-> 0]
  IN message \o <<128>> \o zeros
     \o <<0, 0, 0, 0, (bits \div 16777216) % 256, (bits \div 65536) % 256,
          (bits \div 256) % 256, bits % 256>>

\* The message schedule of one 64-byte block.
RECURSIVE sha256_schedule(_)
sha256_schedule(W) ==
  IF Len(W) = 64 THEN W
  ELSE LET t == Len(W) + 1
       IN sha256_schedule(
            Append(W, ADD(ADD(SmallSigma1(W[t - 2]), W[t - 7]),
                          ADD(SmallSigma0(W[t - 15]), W[t - 16]))))

\* The compression function: S is the sequence of the working variables
\* <<a, b, c, d, e, f, g, h>> before round 1 and after each round so far.
RECURSIVE sha256_rounds(_, _)
sha256_rounds(S, W) ==
  IF Len(S) = 65 THEN S[65]
  ELSE LET t == Len(S)
           s == S[t]
           T1 == ADD(ADD(ADD(s[8], BigSigma1(s[5])), Ch(s[5], s[6], s[7])),
                     ADD(SHA256_K[t], W[t]))
           T2 == ADD(BigSigma0(s[1]), Maj(s[1], s[2], s[3]))
       IN sha256_rounds(Append(S, <<ADD(T1, T2), s[1], s[2], s[3], ADD(s[4], T1),
                                    s[5], s[6], s[7]>>), W)

\* The hash value after the blocks of the padded message from byte `at` on.
RECURSIVE sha256_blocks(_, _, _)
sha256_blocks(H, padded, at) ==
  IF at > Len(padded) THEN H
  ELSE LET W == sha256_schedule(
                  [i \in 1..16 |->
                     <<padded[at + 4 * i - 4] * 256 + padded[at + 4 * i - 3],
                       padded[at + 4 * i - 2] * 256 + padded[at + 4 * i - 1]>>])
           s == sha256_rounds(<<H>>, W)
       IN sha256_blocks(<<ADD(H[1], s[1]), ADD(H[2], s[2]), ADD(H[3], s[3]),
                          ADD(H[4], s[4]), ADD(H[5], s[5]), ADD(H[6], s[6]),
                          ADD(H[7], s[7]), ADD(H[8], s[8])>>, padded, at + 64)

\* hashlib.sha256(message): the eight words of the digest.
sha256(message) == sha256_blocks(SHA256_H0, sha256_pad(message), 1)

HexDigits ==
  <<"0", "1", "2", "3", "4", "5", "6", "7", "8", "9", "a", "b", "c", "d", "e", "f">>

\* The digest as a sequence of lower-case hexadecimal characters: eight
\* characters for each word.
hex_chars(words) ==
  LET Hex4(n) == <<HexDigits[(n \div 4096) + 1], HexDigits[((n \div 256) % 16) + 1],
                   HexDigits[((n \div 16) % 16) + 1], HexDigits[(n % 16) + 1]>>
      Hex8(i) == Hex4(words[i][1]) \o Hex4(words[i][2])
  IN Hex8(1) \o Hex8(2) \o Hex8(3) \o Hex8(4) \o Hex8(5) \o Hex8(6) \o Hex8(7) \o Hex8(8)

\* "".join(chars)
RECURSIVE join(_)
join(chars) ==
  IF chars = <<>> THEN "" ELSE Head(chars) \o join(Tail(chars))

\* .hexdigest(): the digest as a str.
hexdigest(words) == join(hex_chars(words))

\* ------------------------------------------------------------------ files
\* The contents of a file: a sequence of bytes. The modelled files are the
\* byte strings of up to MaxBytes bytes over Bytes and one file that fills
\* more than one 64-byte block once padded, and the files of the tests.
Bytes == {0, 97, 255}

LongFile == [i \in 1..56 |-> 0]

\* b"abc" and b"xyz"
TestFiles == {<<97, 98, 99>>, <<120, 121, 122>>}

FileBytes ==
  UNION {[1..n -> Bytes] : n \in 0..MaxBytes} \cup {LongFile} \cup TestFiles

\* The two media files the providers deliver.
File1 == <<97>>

File2 == <<255>>

\* hashlib.sha256 of each modelled file, computed once.
Digests == {<<b, sha256(b)>> : b \in FileBytes}

\* hashlib.sha256(file_bytes) for a modelled file.
sha256_of(file_bytes) ==
  (CHOOSE p \in Digests : p[1] = file_bytes)[2]

\* .hexdigest() of each of them, computed once.
HexDigests == {<<p[1], hexdigest(p[2])>> : p \in Digests}

\* hashlib.sha256(file_bytes).hexdigest()
compute_file_hash(file_bytes) ==
  (CHOOSE p \in HexDigests : p[1] = file_bytes)[2]

\* ----------------------------------------------------- duplicate detector
\* Rows the hash query can return (no ORDER BY: any one matching row).
find_duplicate_by_hash(exps, file_hash, user_id) ==
  {i \in DOMAIN exps :
     exps[i].user_id = user_id /\ exps[i].file_hash = file_hash}

\* A detector that runs after the write and sees the row just added.
find_duplicate_by_fingerprint_after_write(exps, parsed, user_id, t) ==
  {Len(exps) + 1}

\* The fingerprint query without its owner condition.
find_duplicate_by_fingerprint_any_owner(exps, parsed, user_id, t) ==
  LET expense_date == IF parsed.date # NoDate THEN parsed.date ELSE t
      matches == {i \in DOMAIN exps :
                    /\ exps[i].amount = parsed.amount
                    /\ exps[i].currency = parsed.currency
                    /\ exps[i].date >= expense_date - Day
                    /\ exps[i].date <= expense_date + Day}
  IN {i \in matches : \A j \in matches : exps[j].date <= exps[i].date}

\* Rows the fingerprint query can return: the matches with the latest date.
find_duplicate_by_fingerprint(exps, parsed, user_id, t) ==
  LET expense_date == IF parsed.date # NoDate THEN parsed.date ELSE t
      date_min == expense_date - Day
      date_max == expense_date + Day
      matches == {i \in DOMAIN exps :
                    /\ exps[i].user_id = user_id
                    /\ exps[i].amount = parsed.amount
                    /\ exps[i].currency = parsed.currency
                    /\ exps[i].date >= date_min
                    /\ exps[i].date <= date_max}
  IN {i \in matches : \A j \in matches : exps[j].date <= exps[i].date}

\* ------------------------------------------------------ category resolver
\* A resolver that mints a row without looking.
get_or_create_category_without_lookup(cats, name, user_id) ==
  [exc |-> "",
   categories |-> Append(cats, [name |-> name, user_id |-> user_id]),
   id |-> Len(cats) + 1]

\* [exc, categories, id]: scalar_one_or_none raises on more than one row.
get_or_create_category(cats, name, user_id) ==
  LET rows == {i \in DOMAIN cats :
                 cats[i].name = name /\ cats[i].user_id \in {0, user_id}}
  IN IF Cardinality(rows) > 1
       THEN [exc |-> "MultipleResultsFound", categories |-> cats, id |-> 0]
     ELSE IF rows # {}
       THEN [exc |-> "", categories |-> cats, id |-> CHOOSE i \in rows : TRUE]
     ELSE [exc |-> "",
           categories |-> Append(cats, [name |-> name, user_id |-> user_id]),
           id |-> Len(cats) + 1]

\* ---------------------------------------------------- ingestion pipeline
\* Keyword arguments save_expense passes to the Expense constructor.
ExpenseKwargs ==
  {"user_id", "amount", "currency", "description", "category_id", "date",
   "source", "raw_input", "file_hash"}

\* Python truthiness of a str | None.
Truthy(s) == s # NULL /\ s # ""

\* A flush whose failure is swallowed.
flush_swallowed(minted, fault) ==
  ""

\* db.add(category); await db.flush(): the exception raised when the store
\* fails while a newly minted category is being flushed.
flush(minted, fault) ==
  IF minted /\ fault = "flush" THEN "OperationalError" ELSE ""

\* The store failures injected into a save_expense call: none, at the
\* category flush, at the final commit.
Faults == {"", "flush", "commit"}

\* One call of save_expense on the tables (exps, cats): the set of results
\* [exc, expenses, categories, expense, duplicate, detected, queries] it can
\* have. exc # "" is an exception propagated to the caller before the
\* commit: the session is dropped and nothing of the call is persisted.
\* detected is the local variable duplicate once the detector has run
\* (-1 when it raised); duplicate is the second component returned.
save_expense(exps, cats, parsed, user, source, raw_input, file_hash, t, fault) ==
  LET Raise(e, det, q) ==
        [exc |-> e, expenses |-> exps, categories |-> cats, expense |-> 0,
         duplicate |-> 0, detected |-> det, queries |-> q]
      byHash == IF Truthy(file_hash)
                  THEN find_duplicate_by_hash(exps, file_hash, user.id)
                  ELSE {}
      Rest(dup, q) ==
        LET cat == get_or_create_category(cats, parsed.category_name, user.id)
            row == [user_id |-> user.id,
                    amount |-> parsed.amount,
                    currency |-> IF Truthy(parsed.currency)
                                   THEN parsed.currency ELSE user.currency,
                    description |-> parsed.description,
                    category_id |-> cat.id,
                    date |-> IF parsed.date # NoDate THEN parsed.date ELSE t,
                    source |-> source,
                    raw_input |-> raw_input,
                    file_hash |-> file_hash]
            flushed == flush(Len(cat.categories) > Len(cats), fault)
        IN IF cat.exc # "" THEN Raise(cat.exc, dup, q)
           ELSE IF flushed # "" THEN Raise(flushed, dup, q)
           ELSE IF ~(ExpenseKwargs \subseteq ExpenseColumns)
             THEN Raise("TypeError", dup, q)
           ELSE IF fault = "commit" THEN Raise("OperationalError", dup, q)
           ELSE [exc |-> "", expenses |-> Append(exps, row),
                 categories |-> cat.categories, expense |-> Len(exps) + 1,
                 duplicate |-> dup, detected |-> dup, queries |-> q]
      Fingerprint(q) ==
        LET fp == find_duplicate_by_fingerprint(exps, parsed, user.id, t)
        IN IF fp = {} THEN {Rest(0, Append(q, "fingerprint"))}
           ELSE {Rest(d, Append(q, "fingerprint")) : d \in fp}
  IN IF Truthy(file_hash) /\ "file_hash" \notin ExpenseColumns
       THEN {Raise("AttributeError", -1, <<>>)}
     ELSE IF byHash # {}
       THEN {Rest(d, <<"hash">>) : d \in byHash}
     ELSE Fingerprint(IF Truthy(file_hash) THEN <<"hash">> ELSE <<>>)

\* ------------------------------------------------------- message bodies
\* A body is the sequence of its space-separated words (Body.strip()).
\* str.lower on the modelled words.
lower(w) ==
  CASE w = "REGISTRO" -> "registro"
    [] w = "Resumen" -> "resumen"
    [] w = "AYUDA" -> "ayuda"
    [] OTHER -> w

\* str.isdigit on the modelled words.
isdigit(w) == w \in Pins \cup {"333333", "12345"}

\* The digit test without the length test.
IsPin_any_length(body) == Len(body) = 1 /\ isdigit(body[1])

\* body.isdigit() and len(body) == 6
IsPin(body) == Len(body) = 1 /\ isdigit(body[1]) /\ Len(body[1]) = 6

\* body.lower().startswith("registro ")
IsRegistro(body) == Len(body) >= 2 /\ lower(body[1]) = "registro"

\* cmd == c for cmd = body.lower().strip()
IsCmd(body, c) == Len(body) = 1 /\ lower(body[1]) = c

\* EmailStr validation of UserCreate.
EmailValid(e) == e # "no-es-email"

\* From.replace("whatsapp:", "").strip()
PhoneOf(From) ==
  CASE From = "whatsapp:+521" -> "+521"
    [] From = "whatsapp:+522" -> "+522"

\* content_type.startswith("image/"), ("audio/"), == "application/pdf"
Kind(content_type) ==
  CASE content_type = "image/jpeg" -> "image"
    [] content_type = "audio/ogg" -> "audio"
    [] content_type = "application/pdf" -> "pdf"
    [] OTHER -> "other"

\* ------------------------------------------------------------- replies
PinExpired == "PIN inválido o expirado"
LinkOk == "Tu número quedó vinculado"
NotLinked == "no reconozco tu número"
BadFormat == "Formato incorrecto"
EmailTaken == "Ese email ya tiene cuenta"
Welcome == "Cuenta creada y número vinculado"
Help == "comandos disponibles"
Apology == "Ocurrió un error procesando tu mensaje"

\* --------------------------------------------------- unlinked identities
\* The token query without its expiry condition.
valid_link_tokens_ignoring_expiry(toks, code, t) ==
  {i \in DOMAIN toks : toks[i].token = code /\ toks[i].used = FALSE}

\* The link-token query: rows with that code, unused and not yet expired.
valid_link_tokens(toks, code, t) ==
  {i \in DOMAIN toks :
     /\ toks[i].token = code
     /\ toks[i].used = FALSE
     /\ toks[i].expires_at > t}

\* A redemption that marks the token used and forgets the identity.
link_without_binding(us, toks, red, link_token, phone) ==
  [users |-> us,
   tokens |-> [toks EXCEPT ![link_token].used = TRUE],
   redeemedBy |-> [red EXCEPT ![link_token] = phone]]

\* A redemption that also unlinks every other account.
link_clearing_others(us, toks, red, link_token, phone) ==
  [users |-> [u \in DOMAIN us |->
                [us[u] EXCEPT !.whatsapp_phone =
                   IF u = toks[link_token].user_id THEN phone ELSE NULL]],
   tokens |-> [toks EXCEPT ![link_token].used = TRUE],
   redeemedBy |-> [red EXCEPT ![link_token] = phone]]

\* "Vincular": the owner's identity and the token's flag, one commit.
link(us, toks, red, link_token, phone) ==
  [users |-> [us EXCEPT ![toks[link_token].user_id].whatsapp_phone = phone],
   tokens |-> [toks EXCEPT ![link_token].used = TRUE],
   redeemedBy |-> [red EXCEPT ![link_token] = phone]]

\* pwd_context.hash(password): the stored form of a password.
hash_password(password) == <<"bcrypt", password>>

\* A row of the users table.
Account(email, password, currency, phone) ==
  [email |-> email, password_hash |-> hash_password(password),
   currency |-> currency, whatsapp_phone |-> phone]

\* An email lookup that finds no account.
existing_none(us, email) ==
  {}

\* select(User).where(User.email == email): the accounts with that email.
existing(us, email) ==
  {i \in DOMAIN us : us[i].email = email}

\* The outcome of _handle_unlinked: [users, tokens, redeemedBy, branch,
\* reply, exc]. exc # "" is an exception leaving the handler (no reply).
handle_unlinked(us, toks, red, phone, body, t) ==
  LET Out(u, k, r, b, reply, exc) ==
        [users |-> u, tokens |-> k, redeemedBy |-> r, branch |-> b,
         reply |-> reply, exc |-> exc]
      rows == valid_link_tokens(toks, body[1], t)
      linked == link(us, toks, red, CHOOSE i \in rows : TRUE, phone)
      email == body[2]
      new_user == Account(email, body[3], "MXN", phone)
  IN IF IsPin(body)
       THEN IF Cardinality(rows) > 1
              THEN Out(us, toks, red, "pin", "", "MultipleResultsFound")
            ELSE IF rows = {}
              THEN Out(us, toks, red, "pin", PinExpired, "")
            ELSE Out(linked.users, linked.tokens, linked.redeemedBy,
                     "pin", LinkOk, "")
     ELSE IF IsRegistro(body)
       THEN IF Len(body) < 4
              THEN Out(us, toks, red, "registro", BadFormat, "")
            ELSE IF existing(us, email) # {}
              THEN Out(us, toks, red, "registro", EmailTaken, "")
            ELSE IF ~EmailValid(email)
              THEN Out(us, toks, red, "registro", "", "ValidationError")
            ELSE Out(Append(us, new_user), toks, red, "registro", Welcome, "")
     ELSE Out(us, toks, red, "onboarding", NotLinked, "")

\* ----------------------------------------------------- linked identities
\* A handler that takes whatever the extractor returned as a candidate.
usable_unchecked(parsed) ==
  TRUE

\* "if not parsed": the extractor returned a candidate, not None.
usable(parsed) ==
  parsed # NoCandidate

\* What one save_expense call was given and what it gave back.
SaveRecord(r, parsed, user, source, raw_input, file_hash, n, t, m, fault) ==
  [parsed |-> parsed, user_id |-> user.id, currency |-> user.currency,
   now |-> t, source |-> source,
   raw_input |-> raw_input, file_hash |-> file_hash, exc |-> r.exc,
   expense |-> r.expense, duplicate |-> r.duplicate, detected |-> r.detected,
   queries |-> r.queries, stored_before |-> n, categories_before |-> m,
   fault |-> fault]

\* A handler outcome: tables, the branch taken, the reply, the exception
\* raised (caught by the webhook), the save_expense calls made.
Outcome(exps, cats, branch, reply, exc, saves) ==
  [expenses |-> exps, categories |-> cats, branch |-> branch,
   reply |-> reply, exc |-> exc, saves |-> saves]

\* One save_expense call followed by the reload and format_expense_ok.
SaveAndReply(exps, cats, parsed, user, source, raw_input, file_hash, t, branch, fault) ==
  {Outcome(r.expenses, r.categories, branch,
           IF r.exc # "" THEN ""
           ELSE IF r.duplicate # 0 THEN "Gasto guardado + posible duplicado"
           ELSE "Gasto guardado",
           r.exc,
           <<SaveRecord(r, parsed, user, source, raw_input, file_hash, Len(exps), t,
                        Len(cats), fault)>>) :
     r \in save_expense(exps, cats, parsed, user, source, raw_input, file_hash, t, fault)}

\* The PDF loop: each candidate saved (and committed) in turn; an exception
\* ends the loop and leaves the earlier candidates stored.
RECURSIVE pdf_loop(_, _, _, _, _, _, _, _)
pdf_loop(exps, cats, txs, user, t, saves, dup_count, fault) ==
  IF txs = <<>>
    THEN {Outcome(exps, cats, "pdf",
                  IF dup_count > 0 THEN "Estado de cuenta procesado + duplicados"
                  ELSE "Estado de cuenta procesado",
                  "", saves)}
  ELSE UNION {
    LET rec == SaveRecord(r, Head(txs), user, "pdf", <<"pdf">>, NULL, Len(exps), t,
                          Len(cats), fault)
    IN IF r.exc # ""
         THEN {Outcome(r.expenses, r.categories, "pdf", "", r.exc, Append(saves, rec))}
       ELSE pdf_loop(r.expenses, r.categories, Tail(txs), user, t,
                     Append(saves, rec),
                     dup_count + (IF r.duplicate # 0 THEN 1 ELSE 0), fault) :
    r \in save_expense(exps, cats, Head(txs), user, "pdf", <<"pdf">>, NULL, t, fault)}

\* _handle_media: ext holds what the provider and the extractors returned.
handle_media(exps, cats, user, content_type, caption, ext, t) ==
  IF ~ext.download_ok
    THEN {Outcome(exps, cats, "media", "", "HTTPStatusError", <<>>)}
  ELSE IF Kind(content_type) = "image"
    THEN IF ~usable(ext.parsed)
           THEN {Outcome(exps, cats, "image", "No pude leer el ticket", "", <<>>)}
         ELSE SaveAndReply(exps, cats, ext.parsed, user, "image", <<"imagen">>,
                           compute_file_hash(ext.file_bytes), t, "image",
                           ext.fault)
  ELSE IF Kind(content_type) = "audio"
    THEN IF ext.transcription = <<>>
           THEN {Outcome(exps, cats, "audio", "No pude transcribir el audio", "", <<>>)}
         ELSE IF ~usable(ext.parsed)
           THEN {Outcome(exps, cats, "audio", "No pude identificar un gasto (transcrito)", "", <<>>)}
         ELSE SaveAndReply(exps, cats, ext.parsed, user, "audio",
                           ext.transcription, NULL, t, "audio", ext.fault)
  ELSE IF Kind(content_type) = "pdf"
    THEN IF ext.transactions = <<>>
           THEN {Outcome(exps, cats, "pdf", "No encontré transacciones en el PDF", "", <<>>)}
         ELSE pdf_loop(exps, cats, ext.transactions, user, t, <<>>, 0, ext.fault)
  ELSE {Outcome(exps, cats, "unsupported", "Tipo de archivo no soportado", "", <<>>)}

\* The if-chain with the media test ahead of the command words.
dispatch_media_first(body, num_media, media_url, media_content_type) ==
  IF num_media > 0 /\ Truthy(media_url) /\ Truthy(media_content_type)
    THEN "media"
  ELSE IF IsCmd(body, "resumen") THEN "resumen"
  ELSE IF IsCmd(body, "semana") THEN "semana"
  ELSE IF IsCmd(body, "últimos") \/ IsCmd(body, "ultimos") THEN "ultimos"
  ELSE IF IsCmd(body, "ayuda") \/ IsCmd(body, "help") THEN "ayuda"
  ELSE IF body = <<>> THEN "empty"
  ELSE "text"

\* The if-chain of _handle_linked: which branch takes the message.
dispatch(body, num_media, media_url, media_content_type) ==
  IF IsCmd(body, "resumen") THEN "resumen"
  ELSE IF IsCmd(body, "semana") THEN "semana"
  ELSE IF IsCmd(body, "últimos") \/ IsCmd(body, "ultimos") THEN "ultimos"
  ELSE IF IsCmd(body, "ayuda") \/ IsCmd(body, "help") THEN "ayuda"
  ELSE IF num_media > 0 /\ Truthy(media_url) /\ Truthy(media_content_type)
    THEN "media"
  ELSE IF body = <<>> THEN "empty"
  ELSE "text"

\* A report that commits an emptied expenses table.
query_report_clearing(exps, cats, branch, reply) ==
  Outcome(<<>>, cats, branch, reply, "", <<>>)

\* get_monthly_summary, get_weekly_summary, list_expenses, format_help:
\* selects on the account's rows and a formatted reply, no write.
query_report(exps, cats, branch, reply) ==
  Outcome(exps, cats, branch, reply, "", <<>>)

\* _handle_linked
handle_linked(exps, cats, user, body, num_media, media_url, media_content_type, ext, t) ==
  LET branch == dispatch(body, num_media, media_url, media_content_type)
  IN CASE branch = "resumen" ->
            {query_report(exps, cats, "resumen", "Resumen del mes")}
       [] branch = "semana" ->
            {query_report(exps, cats, "semana", "Últimos 7 días")}
       [] branch = "ultimos" ->
            {query_report(exps, cats, "ultimos", "Últimos gastos")}
       [] branch = "ayuda" ->
            {query_report(exps, cats, "ayuda", Help)}
       [] branch = "media" ->
            handle_media(exps, cats, user, media_content_type, body, ext, t)
       [] branch = "empty" ->
            {Outcome(exps, cats, "empty", Help, "", <<>>)}
       [] branch = "text" ->
            IF ~usable(ext.parsed)
              THEN {Outcome(exps, cats, "text", "No pude identificar un gasto", "", <<>>)}
            ELSE SaveAndReply(exps, cats, ext.parsed, user, "text", body, NULL, t,
                              "text", ext.fault)

\* ------------------------------------------------------ inbound messages
Form(from, body, n, url, ctype) ==
  [From |-> from, Body |-> body, NumMedia |-> n, MediaUrl0 |-> url,
   MediaContentType0 |-> ctype]

\* Text messages about linking and registration.
LinkBodies ==
  {<<>>, <<"12345">>, <<"registro">>,
   <<"registro", "c@x.mx", "secreta">>,
   <<"registro", "a@x.mx", "secreta", "Ana">>,
   <<"registro", "no-es-email", "secreta", "Ana">>,
   <<"REGISTRO", "c@x.mx", "secreta", "Ana", "López">>}
  \cup {<<p>> : p \in Pins}

LinkMessages ==
  {Form("whatsapp:+521", b, 0, NULL, NULL) : b \in LinkBodies}
  \cup {Form("whatsapp:+522", b, 0, NULL, NULL) :
          b \in {<<"REGISTRO", "c@x.mx", "secreta", "Ana", "López">>}
                \cup {<<p>> : p \in Pins}}

\* Commands, free text, media messages, and payloads whose media fields
\* are incomplete, from the first identity.
Bodies ==
  LinkBodies
  \cup {<<"hola">>, <<"resumen">>, <<"Resumen">>, <<"semana">>, <<"últimos">>,
        <<"ultimos">>, <<"ayuda">>, <<"help">>, <<"resumen", "mes">>,
        <<"gasté", "150", "en", "el", "súper">>}

Messages ==
  {Form("whatsapp:+521", b, 0, NULL, NULL) : b \in Bodies}
  \cup {Form("whatsapp:+521", b, 1, "https://api.twilio.com/media/1", c) :
          b \in {<<>>, <<"resumen">>, <<"hola">>},
          c \in {"image/jpeg", "audio/ogg", "application/pdf", "video/mp4"}}
  \cup {Form("whatsapp:+521", b, 1, NULL, "image/jpeg") : b \in {<<>>, <<"hola">>}}
  \cup {Form("whatsapp:+521", <<"hola">>, 1, "https://api.twilio.com/media/1", NULL),
        Form("whatsapp:+521", <<"hola">>, 0, "https://api.twilio.com/media/1", "image/jpeg")}

\* What the provider (download) and the extractors can return for a message.
External(ok, bytes, parsed, transcription, transactions) ==
  [download_ok |-> ok, file_bytes |-> bytes, parsed |-> parsed,
   transcription |-> transcription, transactions |-> transactions, fault |-> "",
   send |-> "ok"]

\* The candidate lists parse_bank_statement can return at time t.
Transactions(t) ==
  LET A == [amount |-> 150, currency |-> "MXN", description |-> "super",
            category_name |-> "Alimentación", date |-> 1]
      B == [A EXCEPT !.date = t]
      M == [amount |-> 99, currency |-> "MXN", description |-> "croquetas",
            category_name |-> "Mascotas", date |-> t]
  IN {<<>>, <<A>>, <<A, B>>, <<B, B, A>>, <<A, M>>}

Externals(m, t, candidates) ==
  LET P == candidates \cup {NoCandidate}
      base ==
          IF m.NumMedia > 0 /\ Truthy(m.MediaUrl0) /\ Truthy(m.MediaContentType0)
            THEN {External(FALSE, File1, NoCandidate, <<>>, <<>>)}
                 \cup CASE Kind(m.MediaContentType0) = "image" ->
                             {External(TRUE, b, p, <<>>, <<>>) :
                                b \in {File1, File2}, p \in P}
                        [] Kind(m.MediaContentType0) = "audio" ->
                             {External(TRUE, File1, p, <<"gasté", "150">>, <<>>) : p \in P}
                             \cup {External(TRUE, File1, NoCandidate, <<>>, <<>>)}
                        [] Kind(m.MediaContentType0) = "pdf" ->
                             {External(TRUE, File1, NoCandidate, <<>>, x) :
                                x \in Transactions(t)}
                        [] OTHER -> {External(TRUE, File1, NoCandidate, <<>>, <<>>)}
          ELSE {External(TRUE, File1, p, <<>>, <<>>) : p \in P}
      saving(e) == e.download_ok /\ (e.parsed # NoCandidate \/ e.transactions # <<>>)
  IN UNION {{[e EXCEPT !.fault = f] : f \in IF saving(e) THEN Faults ELSE {""}} :
            e \in base}

\* ---------------------------------------------------------------- state
\* The expenses table as found at start-up.
StoredExpenses ==
  LET Row(u, a, c, d, h) ==
        [user_id |-> u, amount |-> a, currency |-> c, description |-> "super",
         category_id |-> 1, date |-> d, source |-> "image",
         raw_input |-> <<"imagen">>, file_hash |-> h]
  IN <<Row(1, 150, "MXN", 3, compute_file_hash(File1)), Row(1, 150, "MXN", 4, NULL),
       Row(1, 150, "MXN", 6, NULL), Row(2, 150, "MXN", 1, compute_file_hash(File2)),
       Row(2, 99, "MXN", 2, NULL)>>

\* sent counts the calls of send_message made by the request.
Request(op, m, user, branch, reply, exc, status, saves, pin, sent) ==
  [op |-> op, msg |-> m, user |-> user, branch |-> branch, reply |-> reply,
   exc |-> exc, status |-> status, saves |-> saves, pin |-> pin, sent |-> sent]

NoMessage == Form("", <<>>, 0, NULL, NULL)

\* A webhook request together with what the provider and the extractors
\* returned while it was handled.
Observed(req, ext, signature) ==
  [f \in DOMAIN req \cup {"ext", "signature"} |->
     IF f = "ext" THEN ext ELSE IF f = "signature" THEN signature ELSE req[f]]

Init ==
  /\ users = <<Account("a@x.mx", "clave-a", "USD", NULL)>>
  /\ tokens = <<>>
  /\ categories = [i \in DOMAIN default_categories |->
                     [name |-> default_categories[i], user_id |-> 0]]
  /\ expenses = <<>>
  /\ now = 0
  /\ redeemedBy = <<>>
  /\ last = Request("start", NoMessage, 0, "", "", "", 0, <<>>, "", 0)
  /\ inflight = <<>>
  /\ settings = Development

\* Time passes.
Tick ==
  /\ now < MaxNow
  /\ now' = now + 1
  /\ last' = Request("tick", NoMessage, 0, "", "", "", 0, <<>>, "", 0)
  /\ UNCHANGED <<users, tokens, categories, expenses, redeemedBy, inflight, settings>>

\* An issuance that leaves the earlier tokens alone.
invalidate_previous_keeping(toks, user_id) ==
  toks

\* "Invalidar tokens anteriores no usados del mismo usuario".
invalidate_previous(toks, user_id) ==
  [i \in DOMAIN toks |->
     IF toks[i].user_id = user_id /\ toks[i].used = FALSE
       THEN [toks[i] EXCEPT !.used = TRUE] ELSE toks[i]]

\* POST /api/whatsapp/link-pin by the authenticated account current_user.
generate_link_pin(current_user, pin) ==
  /\ current_user \in DOMAIN users
  /\ Len(tokens) < MaxTokens
  /\ tokens' = Append(invalidate_previous(tokens, current_user),
                      [user_id |-> current_user, token |-> pin,
                       expires_at |-> now + PinTtl, used |-> FALSE])
  /\ redeemedBy' = Append(redeemedBy, NULL)
  /\ last' = Request("link-pin", NoMessage, current_user, "", "", "", 200, <<>>, pin, 0)
  /\ UNCHANGED <<users, categories, expenses, now, inflight, settings>>

\* A handler exception that reaches the caller unanswered.
linked_reply_uncaught(r) ==
  r.reply

\* The try/except around _handle_linked: what is handed to send_message.
linked_reply(r) ==
  IF r.exc = "" THEN r.reply ELSE Apology

\* ------------------------------------------------- the webhook's signature
\* str(request.url) of the webhook.
WebhookUrl == "https://enquesefue.app/api/whatsapp/webhook"

\* The names of the form fields, in sorted() order.
FieldNames == <<"Body", "From", "MediaContentType0", "MediaUrl0", "NumMedia">>

\* str(v) of a form value, as the sequence of its words; a field that was
\* not posted is absent from the form.
FieldValue(m, k) ==
  CASE k = "Body" -> m.Body
    [] k = "From" -> <<m.From>>
    [] k = "MediaContentType0" -> <<m.MediaContentType0>>
    [] k = "MediaUrl0" -> <<m.MediaUrl0>>
    [] k = "NumMedia" -> <<IF m.NumMedia = 0 THEN "0" ELSE "1">>

Posted(m, k) ==
  CASE k = "MediaContentType0" -> m.MediaContentType0 # NULL
    [] k = "MediaUrl0" -> m.MediaUrl0 # NULL
    [] OTHER -> TRUE

\* "".join(f"{k}{v}" for k, v in sorted(params.items()))
RECURSIVE sorted_params(_, _)
sorted_params(m, names) ==
  IF names = <<>> THEN <<>>
  ELSE (IF Posted(m, Head(names))
          THEN <<Head(names)>> \o FieldValue(m, Head(names)) ELSE <<>>)
       \o sorted_params(m, Tail(names))

\* base64.b64encode(hmac.new(key, s, hashlib.sha1).digest()): the digest
\* is determined by the key and the signed string, and by nothing else.
hmac_sha1_b64(key, s) ==
  [alg |-> "HMAC-SHA1", key |-> key, data |-> s]

\* The header when it is missing: request.headers.get(..., "").
NoSignature == [alg |-> "", key |-> "", data |-> <<>>]

\* A validation that also lets a keyed deployment accept any signature.
validate_twilio_signature_open(url, m, signature) ==
  TRUE

\* validate_twilio_signature(url, params, signature)
validate_twilio_signature(url, m, signature) ==
  IF ~Truthy(settings.twilio_auth_token)
    THEN TRUE
  ELSE LET s == <<url>> \o sorted_params(m, FieldNames)
           expected == hmac_sha1_b64(settings.twilio_auth_token, s)
       IN expected = signature

\* ------------------------------------------------------- outbound messages
\* What the provider does with a send: accepts it, answers an error
\* status, or does not answer in time.
Deliveries == {"ok", "HTTPStatusError", "TimeoutException"}

\* A send whose failure reaches the caller.
send_message_raising(outcome) ==
  IF ~Truthy(settings.twilio_account_sid) \/ ~Truthy(settings.twilio_auth_token)
    THEN [posted |-> FALSE, exc |-> ""]
  ELSE [posted |-> TRUE, exc |-> IF outcome = "ok" THEN "" ELSE outcome]

\* send_message(to, body): nothing is posted without credentials; a
\* provider error or a transport error is logged and not raised.
send_message(outcome) ==
  IF ~Truthy(settings.twilio_account_sid) \/ ~Truthy(settings.twilio_auth_token)
    THEN [posted |-> FALSE, exc |-> ""]
  ELSE [posted |-> TRUE, exc |-> ""]

\* POST /api/whatsapp/webhook
whatsapp_webhook(m, ext, signature) ==
  LET phone == PhoneOf(m.From)
      found == {i \in DOMAIN users : users[i].whatsapp_phone = phone}
      sending == send_message(ext.send)
      status == IF sending.exc = "" THEN 200 ELSE 500
  IN IF settings.environment = "production"
        /\ ~validate_twilio_signature(WebhookUrl, m, signature)
       THEN /\ last' = Observed(Request("webhook", m, 0, "rejected", "", "HTTPException",
                                        403, <<>>, "", 0), ext, signature)
            /\ UNCHANGED <<users, tokens, categories, expenses, redeemedBy, now, inflight,
                           settings>>
     ELSE IF found = {}
       THEN LET r == handle_unlinked(users, tokens, redeemedBy, phone, m.Body, now)
            IN /\ Len(r.users) <= MaxUsers
               /\ users' = r.users
               /\ tokens' = r.tokens
               /\ redeemedBy' = r.redeemedBy
               /\ last' = Observed(Request("webhook", m, 0, r.branch, r.reply, r.exc,
                                           IF r.exc = "" THEN status ELSE 500, <<>>, "",
                                           IF r.exc = "" THEN 1 ELSE 0), ext, signature)
               /\ UNCHANGED <<categories, expenses, now, inflight, settings>>
     ELSE LET id == CHOOSE i \in found : TRUE
              user == [id |-> id, currency |-> users[id].currency]
          IN \E r \in handle_linked(expenses, categories, user, m.Body, m.NumMedia,
                                    m.MediaUrl0, m.MediaContentType0, ext, now) :
               /\ expenses' = r.expenses
               /\ categories' = r.categories
               /\ last' = Observed(Request("webhook", m, id, r.branch, linked_reply(r),
                                           r.exc, status, r.saves, "", 1), ext, signature)
               /\ UNCHANGED <<users, tokens, redeemedBy, now, inflight, settings>>

Next ==
  \/ Tick
  \/ \E u \in 1..MaxUsers, pin \in Pins : generate_link_pin(u, pin)
  \/ \E m \in LinkMessages : \E ext \in Externals(m, now, {}) :
       whatsapp_webhook(m, ext, NoSignature)

Spec == Init /\ [][Next]_vars

\* The ingestion pipeline seen from a linked identity: two accounts, the
\* first linked to +521 by a redeemed PIN, and expenses already stored.
InitIngest ==
  /\ users = <<Account("a@x.mx", "clave-a", "USD", "+521"),
               Account("b@x.mx", "clave-b", "MXN", NULL)>>
  /\ tokens = <<[user_id |-> 1, token |-> "111111", expires_at |-> PinTtl,
                 used |-> TRUE]>>
  /\ categories = [i \in DOMAIN default_categories |->
                     [name |-> default_categories[i], user_id |-> 0]]
  /\ expenses = StoredExpenses
  /\ now = 0
  /\ redeemedBy = <<"+521">>
  /\ last = Request("start", NoMessage, 0, "", "", "", 0, <<>>, "", 0)
  /\ inflight = <<>>
  /\ settings = Development

\* ---------------------------------------------------------- HTTP uploads
\* MAX_FILE_SIZE = 20 * 1024 * 1024
MAX_FILE_SIZE == 20971520

\* An UploadFile: the declared content type (NULL when none), the number
\* of bytes read, the bytes.
UploadFile(content_type, size, bytes) ==
  [content_type |-> content_type, size |-> size, bytes |-> bytes]

NoFile == UploadFile(NULL, 0, <<>>)

\* Files a client can post: each declared type, under, at and over the limit.
Files ==
  {UploadFile(c, n, File1) :
     c \in {NULL, "image/jpeg", "audio/ogg", "application/pdf", "video/mp4"},
     n \in {1, MAX_FILE_SIZE, MAX_FILE_SIZE + 1}}

\* The result of an HTTP request of an authenticated account; calls counts
\* the extractor and transcription calls the request made.
HttpResult(op, user, status, exc, saves, n, created, duplicates_count, file, calls) ==
  [op |-> op, user |-> user, status |-> status, exc |-> exc, saves |-> saves,
   n |-> n, created |-> created, duplicates_count |-> duplicates_count,
   file |-> file, calls |-> calls]

\* A request that ends before anything is extracted or stored.
Rejected(op, current_user, status, file, calls) ==
  /\ last' = HttpResult(op, current_user, status, "HTTPException", <<>>, 0, 0, 0,
                        file, calls)
  /\ UNCHANGED <<users, tokens, categories, expenses, now, redeemedBy, inflight,
                 settings>>

\* One save_expense call of an upload and the response built from it.
Uploaded(op, current_user, parsed, source, raw_input, file_hash, fault, file, calls) ==
  LET user == [id |-> current_user, currency |-> users[current_user].currency]
  IN \E r \in save_expense(expenses, categories, parsed, user, source, raw_input,
                           file_hash, now, fault) :
       LET rec == SaveRecord(r, parsed, user, source, raw_input, file_hash,
                             Len(expenses), now, Len(categories), fault)
       IN /\ expenses' = r.expenses
          /\ categories' = r.categories
          /\ last' = HttpResult(op, current_user, IF r.exc # "" THEN 500 ELSE 201,
                                r.exc, <<rec>>, 1, IF r.exc # "" THEN 0 ELSE 1,
                                0, file, calls)
          /\ UNCHANGED <<users, tokens, now, redeemedBy, inflight, settings>>

\* POST /api/expenses: parsed is what parse_expense_from_text returned.
create_expense(current_user, parsed, fault) ==
  LET user == [id |-> current_user, currency |-> users[current_user].currency]
      text == <<"gasté", "150">>
  IN IF parsed = NoCandidate
       THEN /\ last' = HttpResult("create-expense", current_user, 422, "", <<>>, 0, 0, 0,
                                  NoFile, 1)
            /\ UNCHANGED <<users, tokens, categories, expenses, now, redeemedBy, inflight,
                           settings>>
     ELSE \E r \in save_expense(expenses, categories, parsed, user, "text", text,
                                 NULL, now, fault) :
            LET rec == SaveRecord(r, parsed, user, "text", text, NULL,
                                  Len(expenses), now, Len(categories), fault)
            IN \* save_expense has committed when it returns; the handler then
               \* reads .id of the returned tuple.
               /\ expenses' = r.expenses
               /\ categories' = r.categories
               /\ last' = HttpResult("create-expense", current_user, 500,
                                     IF r.exc # "" THEN r.exc ELSE "AttributeError",
                                     <<rec>>, 1, 0, 0, NoFile, 1)
               /\ UNCHANGED <<users, tokens, now, redeemedBy, inflight, settings>>

\* POST /api/upload/image: parsed is what analyze_receipt_bytes returned.
upload_image(current_user, file, parsed, fault) ==
  IF ~Truthy(file.content_type) \/ Kind(file.content_type) # "image"
    THEN Rejected("upload-image", current_user, 400, file, 0)
  ELSE IF file.size > MAX_FILE_SIZE
    THEN Rejected("upload-image", current_user, 413, file, 0)
  ELSE IF ~usable(parsed)
    THEN Rejected("upload-image", current_user, 422, file, 1)
  ELSE Uploaded("upload-image", current_user, parsed, "image", <<"imagen">>,
                compute_file_hash(file.bytes), fault, file, 1)

\* POST /api/upload/audio: what transcribe_audio_bytes and then
\* parse_expense_from_text returned.
upload_audio(current_user, file, transcription, parsed, fault) ==
  IF file.size > MAX_FILE_SIZE
    THEN Rejected("upload-audio", current_user, 413, file, 0)
  ELSE IF transcription = <<>>
    THEN Rejected("upload-audio", current_user, 422, file, 1)
  ELSE IF ~usable(parsed)
    THEN Rejected("upload-audio", current_user, 422, file, 2)
  ELSE Uploaded("upload-audio", current_user, parsed, "audio", transcription, NULL,
                fault, file, 2)

\* POST /api/upload/pdf: transactions is what parse_bank_statement returned.
upload_pdf(current_user, file, transactions, fault) ==
  LET user == [id |-> current_user, currency |-> users[current_user].currency]
  IN IF file.content_type # "application/pdf"
       THEN Rejected("upload-pdf", current_user, 400, file, 0)
     ELSE IF file.size > MAX_FILE_SIZE
       THEN Rejected("upload-pdf", current_user, 413, file, 0)
     ELSE IF transactions = <<>>
       THEN /\ last' = HttpResult("upload-pdf", current_user, 422, "", <<>>, 0, 0, 0,
                                  file, 1)
            /\ UNCHANGED <<users, tokens, categories, expenses, now, redeemedBy, inflight,
                           settings>>
     ELSE \E r \in pdf_loop(expenses, categories, transactions, user, now, <<>>, 0,
                             fault) :
            /\ expenses' = r.expenses
            /\ categories' = r.categories
            /\ last' = IF r.exc # ""
                         THEN HttpResult("upload-pdf", current_user, 500, r.exc,
                                         r.saves, Len(transactions), 0, 0, file, 1)
                       ELSE HttpResult("upload-pdf", current_user, 200, "", r.saves,
                                       Len(transactions), Len(r.saves),
                                       Cardinality({k \in DOMAIN r.saves :
                                                      r.saves[k].duplicate # 0}),
                                       file, 1)
            /\ UNCHANGED <<users, tokens, now, redeemedBy, inflight, settings>>

NextIngest ==
  \/ Tick
  \/ \E m \in Messages : \E ext \in Externals(m, now, ExpenseParsed(now)) :
       whatsapp_webhook(m, ext, NoSignature)
  \/ \E u \in DOMAIN users, parsed \in ExpenseParsed(now) \cup {NoCandidate},
        fault \in Faults : create_expense(u, parsed, fault)
  \/ \E u \in DOMAIN users, transactions \in Transactions(now), fault \in Faults :
       upload_pdf(u, UploadFile("application/pdf", 1, File1), transactions, fault)

SpecIngest == InitIngest /\ [][NextIngest]_vars

\* ======================================================== ingestion claims
\* The calls of save_expense made by the request just handled; each record
\* holds the arguments, the number of rows stored when the call started and
\* what the call produced. Rows are never rewritten, so the rows a call
\* could see are expenses[1..stored_before].

\* C1: every ingest call that does not hit a storage failure persists
\* exactly one new expense of the calling account, and when the account
\* already holds an expense with the same amount and currency dated within
\* one day, the new expense is still written and the existing one is the
\* duplicate returned.
C1_IngestPersistsExactlyOne ==
  \A k \in DOMAIN last.saves :
    LET c == last.saves[k]
        D == IF c.parsed.date # NoDate THEN c.parsed.date ELSE c.now
        matching == {i \in 1..c.stored_before :
                       /\ expenses[i].user_id = c.user_id
                       /\ expenses[i].amount = c.parsed.amount
                       /\ expenses[i].currency = c.parsed.currency
                       /\ expenses[i].date >= D - Day
                       /\ expenses[i].date <= D + Day}
    IN c.exc \notin {"OperationalError", "IntegrityError"} =>
         /\ c.exc = ""
         /\ c.expense = c.stored_before + 1
         /\ c.expense \in DOMAIN expenses
         /\ expenses[c.expense].user_id = c.user_id
         /\ matching # {} => c.duplicate \in matching

\* C2: when ingest is given a file hash and the account already holds an
\* expense with that hash, the duplicate returned is a hash-matching
\* expense and the fingerprint query is never issued.
C2_HashMatchShortCircuits ==
  \A k \in DOMAIN last.saves :
    LET c == last.saves[k]
        sameFile == {i \in 1..c.stored_before :
                       /\ expenses[i].user_id = c.user_id
                       /\ expenses[i].file_hash = c.file_hash}
    IN (Truthy(c.file_hash) /\ sameFile # {}) =>
         /\ c.duplicate \in sameFile
         /\ c.queries = <<"hash">>

\* C3: when no hash is supplied, or no expense of the account carries that
\* hash, the detector yields an expense of the same account with the
\* candidate's amount and currency dated within one day of the candidate's
\* date (bounds included, the current time when the candidate has no
\* date); among several it yields one with the latest date, and it yields
\* none exactly when no such expense exists.
C3_FingerprintFallback ==
  \A k \in DOMAIN last.saves :
    LET c == last.saves[k]
        sameFile == {i \in 1..c.stored_before :
                       /\ expenses[i].user_id = c.user_id
                       /\ expenses[i].file_hash = c.file_hash}
        D == IF c.parsed.date # NoDate THEN c.parsed.date ELSE c.now
        matching == {i \in 1..c.stored_before :
                       /\ expenses[i].user_id = c.user_id
                       /\ expenses[i].amount = c.parsed.amount
                       /\ expenses[i].currency = c.parsed.currency
                       /\ D - expenses[i].date <= Day
                       /\ expenses[i].date - D <= Day}
    IN (~Truthy(c.file_hash) \/ sameFile = {}) =>
         /\ matching = {} => c.detected = 0
         /\ matching # {} =>
              /\ c.detected \in matching
              /\ \A i \in matching : expenses[i].date <= expenses[c.detected].date

\* The part of C3 the code keeps: with no hash supplied the detector is the
\* fingerprint query alone.
FingerprintWithoutHash ==
  \A k \in DOMAIN last.saves :
    LET c == last.saves[k]
        D == IF c.parsed.date # NoDate THEN c.parsed.date ELSE c.now
        matching == {i \in 1..c.stored_before :
                       /\ expenses[i].user_id = c.user_id
                       /\ expenses[i].amount = c.parsed.amount
                       /\ expenses[i].currency = c.parsed.currency
                       /\ D - expenses[i].date <= Day
                       /\ expenses[i].date - D <= Day}
    IN ~Truthy(c.file_hash) =>
         /\ c.queries = <<"fingerprint">>
         /\ matching = {} => c.detected = 0
         /\ matching # {} =>
              /\ c.detected \in matching
              /\ \A i \in matching : expenses[i].date <= expenses[c.detected].date

\* C4: the expense written by ingest carries the candidate's amount and
\* description, the resolved category, the given source tag, raw input and
\* file hash, the candidate's date or else the current time, and the
\* candidate's currency or else the account's default; no stored expense
\* has a null date; with no earlier expense of the account the duplicate
\* returned is none.
C4_WrittenExpenseFields ==
  /\ \A i \in DOMAIN expenses : expenses[i].date # NoDate
  /\ \A k \in DOMAIN last.saves :
       LET c == last.saves[k]
           row == expenses[c.expense]
           own == {i \in 1..c.stored_before : expenses[i].user_id = c.user_id}
       IN c.exc \notin {"OperationalError", "IntegrityError"} =>
            /\ c.expense \in DOMAIN expenses
            /\ row.amount = c.parsed.amount
            /\ row.description = c.parsed.description
            /\ row.category_id \in DOMAIN categories
            /\ categories[row.category_id].name = c.parsed.category_name
            /\ categories[row.category_id].user_id \in {0, c.user_id}
            /\ row.source = c.source
            /\ row.raw_input = c.raw_input
            /\ row.file_hash = c.file_hash
            /\ row.date = (IF c.parsed.date # NoDate THEN c.parsed.date ELSE c.now)
            /\ row.currency = (IF Truthy(c.parsed.currency)
                                 THEN c.parsed.currency ELSE c.currency)
            /\ own = {} => c.duplicate = 0

\* ========================================================== linking claims
\* last' describes the step being taken: the request, who sent it and what
\* it was answered. Unprimed variables are the store before the request.

\* C5: the used flag of a token never returns to false; a six-digit message
\* from an unlinked identity whose code is held by an unused, unexpired
\* token succeeds and marks such a token used for the sender; a message
\* whose code no unused, unexpired token holds gets the invalid-PIN reply.
C5_TokenRedeemedAtMostOnce ==
  [][/\ \A i \in DOMAIN tokens : tokens[i].used => tokens'[i].used
     /\ \A i \in DOMAIN redeemedBy :
          redeemedBy[i] # NULL => redeemedBy'[i] = redeemedBy[i]
     /\ (/\ last'.op = "webhook"
         /\ last'.user = 0
         /\ Len(last'.msg.Body) = 1
         /\ isdigit(last'.msg.Body[1])
         /\ Len(last'.msg.Body[1]) = 6) =>
          LET code == last'.msg.Body[1]
              valid == {i \in DOMAIN tokens :
                          /\ tokens[i].token = code
                          /\ ~tokens[i].used
                          /\ tokens[i].expires_at > now}
          IN /\ valid # {} =>
                  /\ last'.reply = LinkOk
                  /\ \E i \in valid :
                       /\ tokens'[i].used
                       /\ redeemedBy'[i] = PhoneOf(last'.msg.From)
             /\ valid = {} => last'.reply = PinExpired]_vars

\* C6: issuing a PIN for an account marks every earlier unused token of
\* that account used, appends one unused token for it expiring PinTtl
\* later, and leaves the tokens of other accounts as they were; hence of
\* two tokens issued to the same account the earlier one is never unused.
C6_IssuanceInvalidatesPrevious ==
  /\ [](\A i, j \in DOMAIN tokens :
          (i < j /\ tokens[i].user_id = tokens[j].user_id) => tokens[i].used)
  /\ [][last'.op = "link-pin" =>
          /\ Len(tokens') = Len(tokens) + 1
          /\ tokens'[Len(tokens')] =
               [user_id |-> last'.user, token |-> last'.pin,
                expires_at |-> now + PinTtl, used |-> FALSE]
          /\ \A i \in DOMAIN tokens :
               tokens'[i] = IF tokens[i].user_id = last'.user
                              THEN [tokens[i] EXCEPT !.used = TRUE]
                              ELSE tokens[i]]_vars

\* An issuance has just retired an earlier token nobody redeemed.
C6_Witness ==
  /\ last.op = "link-pin"
  /\ \E i \in DOMAIN tokens :
       /\ i < Len(tokens)
       /\ tokens[i].user_id = last.user
       /\ tokens[i].used
       /\ redeemedBy[i] = NULL
  /\ ~tokens[Len(tokens)].used

\* C7: a six-digit message from an unlinked identity whose code no unused,
\* unexpired token holds is answered with the invalid-PIN reply and changes
\* nothing: the sender stays unlinked and no token or account is modified.
C7_InvalidPinChangesNothing ==
  [][(/\ last'.op = "webhook"
      /\ last'.user = 0
      /\ Len(last'.msg.Body) = 1
      /\ isdigit(last'.msg.Body[1])
      /\ Len(last'.msg.Body[1]) = 6
      /\ ~\E i \in DOMAIN tokens :
            /\ tokens[i].token = last'.msg.Body[1]
            /\ ~tokens[i].used
            /\ tokens[i].expires_at > now) =>
        /\ last'.reply = PinExpired
        /\ last'.status = 200
        /\ users' = users
        /\ tokens' = tokens
        /\ redeemedBy' = redeemedBy
        /\ expenses' = expenses
        /\ categories' = categories
        /\ \A u \in DOMAIN users' :
             users'[u].whatsapp_phone # PhoneOf(last'.msg.From)]_vars

\* The code just refused is held by a token that expired unused.
C7_Witness ==
  /\ last.op = "webhook"
  /\ last.user = 0
  /\ last.reply = PinExpired
  /\ \E i \in DOMAIN tokens :
       /\ tokens[i].token = last.msg.Body[1]
       /\ ~tokens[i].used
       /\ tokens[i].expires_at <= now

C10_OtherBodiesGetOnboarding ==
  (last.op = "webhook" /\ last.user = 0) =>
    LET b == last.msg.Body
    IN IF Len(b) = 1 /\ isdigit(b[1]) /\ Len(b[1]) = 6
         THEN last.branch = "pin"
       ELSE IF Len(b) >= 4 /\ lower(b[1]) = "registro"
         THEN last.branch = "registro"
       ELSE /\ last.reply = NotLinked
            /\ \A u \in DOMAIN users :
                 users[u].whatsapp_phone # PhoneOf(last.msg.From)

\* C10 amended: as above, except that the keyword followed by one or two
\* fields gets the format-error reply; that reply and the onboarding reply
\* both change nothing in the store and leave the sender unlinked.
C10_UnlinkedClassification ==
  [][(last'.op = "webhook" /\ last'.user = 0) =>
       LET b == last'.msg.Body
       IN IF Len(b) = 1 /\ isdigit(b[1]) /\ Len(b[1]) = 6
            THEN /\ last'.branch = "pin"
                 /\ last'.reply \in {LinkOk, PinExpired, ""}
                 /\ Len(users') = Len(users)
          ELSE IF Len(b) >= 4 /\ lower(b[1]) = "registro"
            THEN /\ last'.branch = "registro"
                 /\ last'.reply \in {Welcome, EmailTaken, ""}
                 /\ tokens' = tokens
          ELSE /\ last'.reply = IF Len(b) \in {2, 3} /\ lower(b[1]) = "registro"
                                  THEN BadFormat ELSE NotLinked
               /\ last'.status = 200
               /\ users' = users
               /\ tokens' = tokens
               /\ redeemedBy' = redeemedBy
               /\ expenses' = expenses
               /\ categories' = categories
               /\ \A u \in DOMAIN users' :
                    users'[u].whatsapp_phone # PhoneOf(last'.msg.From)]_vars

\* The keyword with too few fields has just been refused.
C10_Witness ==
  /\ last.op = "webhook"
  /\ last.user = 0
  /\ Len(last.msg.Body) \in {2, 3}
  /\ lower(last.msg.Body[1]) = "registro"
  /\ last.reply = BadFormat
  /\ \A u \in DOMAIN users : users[u].whatsapp_phone # PhoneOf(last.msg.From)

\* C9: for a linked identity a recognised command word is answered with
\* its report even when media is attached; otherwise attached media goes
\* to the media pipeline; otherwise a non-empty body goes to the free-text
\* parser; otherwise the help text is sent. One branch runs per message.
C9_LinkedDispatchPriority ==
  (last.op = "webhook" /\ last.user # 0) =>
    LET m == last.msg
        word == IF Len(m.Body) = 1 THEN lower(m.Body[1]) ELSE ""
        report == CASE word = "resumen" -> "resumen"
                    [] word = "semana" -> "semana"
                    [] word \in {"últimos", "ultimos"} -> "ultimos"
                    [] word \in {"ayuda", "help"} -> "ayuda"
                    [] OTHER -> ""
        attached == /\ m.NumMedia > 0
                    /\ Truthy(m.MediaUrl0)
                    /\ Truthy(m.MediaContentType0)
    IN /\ report # "" =>
            /\ last.branch = report
            /\ last.saves = <<>>
            /\ last.exc = ""
       /\ (report = "" /\ attached) =>
            last.branch \in {"media", "image", "audio", "pdf", "unsupported"}
       /\ (report = "" /\ ~attached /\ m.Body # <<>>) =>
            /\ last.branch = "text"
            /\ Len(last.saves) <= 1
       /\ (report = "" /\ ~attached /\ m.Body = <<>>) =>
            /\ last.branch = "empty"
            /\ last.reply = Help
            /\ last.saves = <<>>

\* A command word arrived with media attached and got its report.
C9_Witness ==
  /\ last.op = "webhook"
  /\ last.user # 0
  /\ last.branch \in {"resumen", "semana", "ultimos", "ayuda"}
  /\ last.msg.NumMedia > 0
  /\ Truthy(last.msg.MediaUrl0)
  /\ Truthy(last.msg.MediaContentType0)

\* ====================================================== dispatcher claims
\* C11: whenever handling a message from a linked identity raises an
\* exception (media download or store), the dispatcher answers with the
\* apology text and the webhook completes with success; every message from
\* a linked identity hands exactly one reply to send_message.
C11_LinkedAlwaysAnswered ==
  (last.op = "webhook" /\ last.user # 0) =>
    /\ last.sent = 1
    /\ last.status = 200
    /\ last.reply # ""
    /\ last.exc # "" => last.reply = Apology

\* A media download has just failed and the sender got the apology.
C11_Witness ==
  /\ last.op = "webhook"
  /\ last.user # 0
  /\ last.exc = "HTTPStatusError"
  /\ last.reply = Apology
  /\ last.sent = 1

\* ==================================================== category resolution
\* A seeding that adds the default rows without looking at the table.
seed_global_categories_unchecked(cats) ==
  cats \o [i \in DOMAIN default_categories |->
             [name |-> default_categories[i], user_id |-> 0]]

\* _seed_global_categories on a categories table: the default names that no
\* global row carries are added as global rows (user_id 0 is NULL).
seed_global_categories(cats) ==
  LET existing_names == {cats[i].name : i \in {j \in DOMAIN cats : cats[j].user_id = 0}}
      rows == [i \in DOMAIN default_categories |->
                 [name |-> default_categories[i], user_id |-> 0]]
  IN cats \o SelectSeq(rows, LAMBDA c : c.name \notin existing_names)

\* The category the model's answer names: a catalog name, a name outside
\* the catalog, or no category_name key at all.
ModelAnswers ==
  {[category_name |-> c] : c \in {"Alimentación", "Mascotas", "Viajes", "<missing>"}}

\* category_name=data.get("category_name", "Otros")
ExtractedCategory(data) ==
  IF data.category_name = "<missing>" THEN "Otros" ELSE data.category_name

\* Category names an extractor can return.
CategoryNames == {ExtractedCategory(d) : d \in ModelAnswers}

\* One resolver call, as observed.
Resolved(name, user_id, r, n) ==
  [op |-> "resolve", name |-> name, user_id |-> user_id, id |-> r.id,
   exc |-> r.exc, rows_before |-> n]

\* The accounts the resolver is called for.
TwoUsers ==
  <<Account("a@x.mx", "clave-a", "USD", "+521"),
    Account("b@x.mx", "clave-b", "MXN", NULL)>>

\* The resolver at work on a freshly seeded table.
InitCategory ==
  /\ users = TwoUsers
  /\ tokens = <<>>
  /\ categories = seed_global_categories(<<>>)
  /\ expenses = <<>>
  /\ now = 0
  /\ redeemedBy = <<>>
  /\ last = [op |-> "start"]
  /\ inflight = <<>>
  /\ settings = Development

\* A process start: init_db seeds the global rows again.
init_db ==
  /\ categories' = seed_global_categories(categories)
  /\ last' = [op |-> "init_db", rows_before |-> Len(categories)]
  /\ UNCHANGED <<users, tokens, expenses, now, redeemedBy, inflight, settings>>

\* One call of get_or_create_category in a session that keeps its rows.
resolve(name, user_id) ==
  LET r == get_or_create_category(categories, name, user_id)
  IN /\ Len(r.categories) <= Len(default_categories) + MaxPrivate
     /\ categories' = r.categories
     /\ last' = Resolved(name, user_id, r, Len(categories))
     /\ UNCHANGED <<users, tokens, expenses, now, redeemedBy, inflight, settings>>

NextCategory ==
  \/ init_db
  \/ \E name \in CategoryNames, user_id \in DOMAIN TwoUsers : resolve(name, user_id)

SpecCategory == InitCategory /\ [][NextCategory]_vars

\* The same on a table that already holds, for account 1, a row named like
\* a global one (the global row was seeded after the account's was minted).
InitCategoryStored ==
  /\ users = TwoUsers
  /\ tokens = <<>>
  /\ categories = Append(seed_global_categories(<<>>),
                         [name |-> "Alimentación", user_id |-> 1])
  /\ expenses = <<>>
  /\ now = 0
  /\ redeemedBy = <<>>
  /\ last = [op |-> "start"]
  /\ inflight = <<>>
  /\ settings = Development

SpecCategoryStored == InitCategoryStored /\ [][NextCategory]_vars

\* C12: two consecutive resolutions of the same name for the same account
\* return the same row and the second creates none; when a global row of
\* that name exists and the account has none, the global row is returned
\* and nothing is created.
C12_ResolutionIdempotent ==
  [][/\ (/\ last.op = "resolve"
         /\ last'.op = "resolve"
         /\ last'.name = last.name
         /\ last'.user_id = last.user_id) =>
          /\ last.exc = ""
          /\ last'.exc = ""
          /\ last'.id = last.id
          /\ categories' = categories
     /\ (/\ last'.op = "resolve"
         /\ \E i \in DOMAIN categories :
              categories[i].name = last'.name /\ categories[i].user_id = 0
         /\ ~\E i \in DOMAIN categories :
              categories[i].name = last'.name /\ categories[i].user_id = last'.user_id) =>
          /\ last'.exc = ""
          /\ categories' = categories
          /\ categories[last'.id].name = last'.name
          /\ categories[last'.id].user_id = 0]_vars

\* A resolution has just returned a row the account minted earlier.
C12_Witness ==
  /\ last.op = "resolve"
  /\ last.exc = ""
  /\ last.rows_before = Len(categories)
  /\ categories[last.id].user_id = last.user_id
  /\ categories[last.id].name = last.name

\* C13: resolution raises no error in any store state, and when a global
\* row and a row of the account carry the same name it returns the
\* account's row.
C13_OwnRowWins ==
  last.op = "resolve" =>
    /\ last.exc = ""
    /\ last.id \in DOMAIN categories
    /\ categories[last.id].name = last.name
    /\ (\E i \in DOMAIN categories :
          categories[i].name = last.name /\ categories[i].user_id = last.user_id)
         => categories[last.id].user_id = last.user_id

\* ========================================================= store failures
\* C19: when the store fails during an ingest, at the category flush or at
\* the final commit, the ingest ends there: the failure reaches the caller,
\* no category and no expense of that call is stored, and the call is not
\* attempted again.
C19_StoreFailureAbortsIngest ==
  last.op = "webhook" =>
    \A k \in DOMAIN last.saves :
      LET c == last.saves[k]
          known == \E i \in 1..c.categories_before :
                     /\ categories[i].name = c.parsed.category_name
                     /\ categories[i].user_id \in {0, c.user_id}
      IN /\ (/\ c.fault = "flush"
             /\ ~known
             /\ c.exc \notin {"AttributeError", "MultipleResultsFound"}) =>
               c.exc = "OperationalError"
         /\ (c.fault = "commit" /\ c.exc = "") => FALSE
         /\ c.exc = "OperationalError" =>
              /\ k = Len(last.saves)
              /\ last.exc = "OperationalError"
              /\ c.expense = 0
              /\ Len(expenses) = c.stored_before
              /\ Len(categories) = c.categories_before

\* The store has just failed while a new category was being flushed.
C19_Witness ==
  /\ last.op = "webhook"
  /\ last.saves # <<>>
  /\ last.saves[1].fault = "flush"
  /\ last.saves[1].exc = "OperationalError"
  /\ last.exc = "OperationalError"
  /\ \A i \in DOMAIN categories :
       categories[i].name # last.saves[1].parsed.category_name

\* ========================================================= channel claims
\* C15: a document import that extracts N candidates ingests each of them
\* and reports created = N and duplicates_count = the number of candidates
\* for which the detector returned a match; a flagged duplicate never
\* reduces created, and duplicates_count <= created.
C15_ImportCountsEveryCandidate ==
  LET stored(c) == c.exc # "OperationalError"
      complete == \A k \in DOMAIN last.saves :
                    /\ last.saves[k].exc = ""
                    /\ last.saves[k].expense \in DOMAIN expenses
  IN /\ (/\ last.op = "upload-pdf"
         /\ last.n > 0
         /\ \A k \in DOMAIN last.saves : stored(last.saves[k])) =>
          /\ last.status = 200
          /\ Len(last.saves) = last.n
          /\ complete
          /\ last.created = last.n
          /\ last.duplicates_count =
               Cardinality({k \in DOMAIN last.saves : last.saves[k].detected > 0})
          /\ last.duplicates_count <= last.created
     /\ (/\ last.op = "webhook"
         /\ last.branch = "pdf"
         /\ last.saves # <<>>
         /\ \A k \in DOMAIN last.saves : stored(last.saves[k])) =>
          /\ last.exc = ""
          /\ complete

\* C16: an expense written through the image path stores the hash of the
\* submitted bytes and is screened by that hash first; an expense written
\* through the text, audio or document path has no hash and is screened by
\* the fingerprint query only; a stored hash is found only on expenses
\* whose source is an image.
C16_HashOnlyOnImages ==
  /\ \A i \in DOMAIN expenses :
       Truthy(expenses[i].file_hash) => expenses[i].source = "image"
  /\ \A k \in DOMAIN last.saves :
       LET c == last.saves[k]
       IN c.exc # "OperationalError" =>
            /\ c.expense \in DOMAIN expenses
            /\ expenses[c.expense].file_hash = c.file_hash
            /\ IF c.source = "image"
                 THEN /\ c.file_hash \in {compute_file_hash(b) : b \in {File1, File2}}
                      /\ c.queries # <<>>
                      /\ c.queries[1] = "hash"
               ELSE /\ c.file_hash = NULL
                    /\ c.queries = <<"fingerprint">>

\* C20: on POST /api/expenses, when the extractor returns a candidate the
\* request stores exactly one expense with source "text" and answers 201;
\* it reports an error only when no expense was stored.
C20_CreateExpenseAnswers201 ==
  (last.op = "create-expense" /\ last.saves # <<>>) =>
    LET c == last.saves[1]
    IN /\ c.exc # "OperationalError" =>
            /\ last.status = 201
            /\ Len(expenses) = c.stored_before + 1
            /\ expenses[Len(expenses)].source = "text"
            /\ expenses[Len(expenses)].user_id = last.user
       /\ last.status # 201 => Len(expenses) = c.stored_before

\* ===================================================== concurrent requests
\* Each request runs in a session of its own and yields at every await, so
\* the statements of two requests interleave. A request in flight is a
\* record of its position (pc: the statement it runs next) and its locals.
\* A session reads the committed rows and the rows it flushed itself; what
\* it flushed reaches the tables at its commit and is dropped when the
\* session is closed without one.

\* Requests in flight at the same time.
MaxCalls == 2

Call(op, pc, user, parsed, pin, duplicate, minted, prev, exc) ==
  [op |-> op, pc |-> pc, user |-> user, parsed |-> parsed, pin |-> pin,
   duplicate |-> duplicate, minted |-> minted, prev |-> prev, exc |-> exc]

\* One purchase, filed under a seeded name or under a name no row has yet.
Purchases ==
  {[amount |-> 150, currency |-> "MXN", description |-> "super",
    category_name |-> c, date |-> 1] : c \in {"Alimentación", "Mascotas"}}

InitRace ==
  /\ users = TwoUsers
  /\ tokens = <<>>
  /\ categories = seed_global_categories(<<>>)
  /\ expenses = <<>>
  /\ now = 0
  /\ redeemedBy = <<>>
  /\ last = [op |-> "start"]
  /\ inflight = <<>>
  /\ settings = Development

\* save_expense up to its first await: a text ingest (no hash) runs the
\* fingerprint query on the committed rows.
save_detect(user_id, parsed) ==
  /\ Len(inflight) < MaxCalls
  /\ \E d \in LET fp == find_duplicate_by_fingerprint(expenses, parsed, user_id, now)
              IN IF fp = {} THEN {0} ELSE fp :
       inflight' = Append(inflight,
                          Call("save", "category", user_id, parsed, "", d, <<>>, {}, ""))
  /\ UNCHANGED <<users, tokens, categories, expenses, now, redeemedBy, last, settings>>

\* category = await get_or_create_category(...): the select, and the flush
\* of the row minted when the select found none.
save_category(i) ==
  /\ i \in DOMAIN inflight
  /\ inflight[i].op = "save"
  /\ inflight[i].pc = "category"
  /\ LET c == inflight[i]
         r == get_or_create_category(categories, c.parsed.category_name, c.user)
     IN inflight' =
          [inflight EXCEPT ![i] =
             IF r.exc # ""
               THEN [c EXCEPT !.pc = "done", !.exc = r.exc]
               ELSE [c EXCEPT !.pc = "commit",
                              !.minted = SubSeq(r.categories, Len(categories) + 1,
                                                Len(r.categories))]]
  /\ UNCHANGED <<users, tokens, categories, expenses, now, redeemedBy, last, settings>>

\* expense = Expense(...); db.add(expense); await db.commit(): the
\* constructor raises on a keyword that is no column, and the session is
\* closed with what it flushed; otherwise the minted category and the
\* expense are committed together.
save_commit(i) ==
  /\ i \in DOMAIN inflight
  /\ inflight[i].op = "save"
  /\ inflight[i].pc = "commit"
  /\ LET c == inflight[i]
         cats == categories \o c.minted
         cat == get_or_create_category(cats, c.parsed.category_name, c.user)
         row == [user_id |-> c.user,
                 amount |-> c.parsed.amount,
                 currency |-> IF Truthy(c.parsed.currency)
                                THEN c.parsed.currency ELSE users[c.user].currency,
                 description |-> c.parsed.description,
                 category_id |-> IF c.minted # <<>> THEN Len(cats) ELSE cat.id,
                 date |-> IF c.parsed.date # NoDate THEN c.parsed.date ELSE now,
                 source |-> "text",
                 raw_input |-> c.parsed.description,
                 file_hash |-> NULL]
     IN IF ~(ExpenseKwargs \subseteq ExpenseColumns)
          THEN /\ inflight' = [inflight EXCEPT ![i] =
                                 [c EXCEPT !.pc = "done", !.exc = "TypeError"]]
               /\ UNCHANGED <<categories, expenses>>
          ELSE /\ categories' = cats
               /\ expenses' = Append(expenses, row)
               /\ inflight' = [inflight EXCEPT ![i] = [c EXCEPT !.pc = "done"]]
  /\ UNCHANGED <<users, tokens, now, redeemedBy, last, settings>>

\* generate_link_pin up to its first await: the select of the account's
\* unused tokens among the committed rows.
pin_select(current_user, pin) ==
  /\ Len(inflight) < MaxCalls
  /\ Len(tokens) + Cardinality({k \in DOMAIN inflight :
                                  inflight[k].op = "link-pin" /\ inflight[k].pc = "commit"})
       < MaxTokens
  /\ inflight' = Append(inflight,
       Call("link-pin", "commit", current_user, NoCandidate, pin, 0, <<>>,
            {k \in DOMAIN tokens : tokens[k].user_id = current_user /\ ~tokens[k].used},
            ""))
  /\ UNCHANGED <<users, tokens, categories, expenses, now, redeemedBy, last, settings>>

\* for old_token in prev: old_token.used = True; db.add(token);
\* await db.commit(): the rows selected are marked and the new token is
\* written, in one commit.
pin_commit(i) ==
  /\ i \in DOMAIN inflight
  /\ inflight[i].op = "link-pin"
  /\ inflight[i].pc = "commit"
  /\ LET c == inflight[i]
     IN /\ tokens' = Append([k \in DOMAIN tokens |->
                               IF k \in c.prev THEN [tokens[k] EXCEPT !.used = TRUE]
                                               ELSE tokens[k]],
                            [user_id |-> c.user, token |-> c.pin,
                             expires_at |-> now + PinTtl, used |-> FALSE])
        /\ inflight' = [inflight EXCEPT ![i] = [c EXCEPT !.pc = "done"]]
  /\ redeemedBy' = Append(redeemedBy, NULL)
  /\ UNCHANGED <<users, categories, expenses, now, last, settings>>

\* The response (or the error) of a finished request is sent and its
\* session closed.
respond(i) ==
  /\ i \in DOMAIN inflight
  /\ inflight[i].pc = "done"
  /\ inflight' = [k \in 1..(Len(inflight) - 1) |->
                    IF k < i THEN inflight[k] ELSE inflight[k + 1]]
  /\ UNCHANGED <<users, tokens, categories, expenses, now, redeemedBy, last, settings>>

NextRace ==
  \/ init_db
  \/ \E u \in DOMAIN users, parsed \in Purchases : save_detect(u, parsed)
  \/ \E i \in 1..MaxCalls : save_category(i)
  \/ \E i \in 1..MaxCalls : save_commit(i)
  \/ \E u \in DOMAIN users : pin_select(u, "111111")
  \/ \E i \in 1..MaxCalls : pin_commit(i)
  \/ \E i \in 1..MaxCalls : respond(i)

SpecRace == InitRace /\ [][NextRace]_vars

\* ====================================================== concurrency claims
\* Two requests of one account that ingest the same purchase, each having
\* run its duplicate check before either reached its write.
RacingSaves ==
  {p \in (DOMAIN inflight) \X (DOMAIN inflight) :
     /\ p[1] < p[2]
     /\ inflight[p[1]].op = "save"
     /\ inflight[p[2]].op = "save"
     /\ inflight[p[1]].user = inflight[p[2]].user
     /\ inflight[p[1]].parsed = inflight[p[2]].parsed}

C17_RacingIngestsBothPersist ==
  \A p \in RacingSaves :
    (inflight[p[1]].pc = "done" /\ inflight[p[2]].pc = "done"
       /\ inflight[p[1]].duplicate = 0 /\ inflight[p[2]].duplicate = 0) =>
      /\ inflight[p[1]].exc = ""
      /\ inflight[p[2]].exc = ""
      /\ Cardinality({e \in DOMAIN expenses :
                        /\ expenses[e].user_id = inflight[p[1]].user
                        /\ expenses[e].amount = inflight[p[1]].parsed.amount}) >= 2

\* C18: in every reachable state, concurrent issuance included, an account
\* has at most one token that is unused and unexpired.
C18_OneLiveTokenPerAccount ==
  \A u \in DOMAIN users :
    Cardinality({k \in DOMAIN tokens :
                   /\ tokens[k].user_id = u
                   /\ ~tokens[k].used
                   /\ tokens[k].expires_at > now}) <= 1

\* ======================================================= isolation claims
\* The rows of another account that carry the content of a call: the same
\* amount and currency dated within one day, or the same hash.
ForeignMatches(c) ==
  LET d == IF c.parsed.date # NoDate THEN c.parsed.date ELSE c.now
  IN {i \in 1..c.stored_before :
        /\ expenses[i].user_id # c.user_id
        /\ \/ /\ expenses[i].amount = c.parsed.amount
              /\ expenses[i].currency = c.parsed.currency
              /\ expenses[i].date >= d - Day
              /\ expenses[i].date <= d + Day
           \/ (Truthy(c.file_hash) /\ expenses[i].file_hash = c.file_hash)}

\* The table a call saw, with the rows of the other accounts taken out.
OwnRows(c) ==
  SelectSeq(SubSeq(expenses, 1, c.stored_before),
            LAMBDA e : e.user_id = c.user_id)

\* C21: the duplicate found by an ingest is a row of the ingesting
\* account, and the outcome of the duplicate check is the one the check
\* gives on the account's own rows alone: rows of other accounts with the
\* same hash, or the same amount, currency and date, are never returned
\* and never change the result.
C21_DuplicateOwnedByCaller ==
  /\ \A u \in DOMAIN users, h \in {compute_file_hash(File1), compute_file_hash(File2)} :
       \A i \in find_duplicate_by_hash(expenses, h, u) : expenses[i].user_id = u
  /\ \A k \in DOMAIN last.saves :
       LET c == last.saves[k]
           seen == SubSeq(expenses, 1, c.stored_before)
           all == find_duplicate_by_fingerprint(seen, c.parsed, c.user_id, c.now)
           own == find_duplicate_by_fingerprint(OwnRows(c), c.parsed, c.user_id, c.now)
       IN /\ c.detected > 0 => expenses[c.detected].user_id = c.user_id
          /\ c.duplicate > 0 => expenses[c.duplicate].user_id = c.user_id
          /\ (all = {}) = (own = {})
          /\ {seen[i] : i \in all} = {OwnRows(c)[i] : i \in own}
          /\ c.queries # <<>> =>
               /\ (c.detected = 0) = (own = {})
               /\ c.detected > 0 => c.detected \in all

\* An ingest found no duplicate although another account holds a row with
\* the same amount and currency dated within a day.
C21_Witness ==
  \E k \in DOMAIN last.saves :
    /\ last.saves[k].queries # <<>>
    /\ last.saves[k].detected = 0
    /\ ForeignMatches(last.saves[k]) # {}

\* ==================================================== registration claims
\* C22: a chat registration ("registro email password name") from an
\* unlinked identity with an email that an account already has creates no
\* account and changes none (no identity bound, no password changed, no
\* token touched), is answered with the pointer to linking from the app,
\* and leaves the sender unlinked.
C22_RegisteredEmailChangesNothing ==
  [][(/\ last'.op = "webhook"
      /\ IsRegistro(last'.msg.Body)
      /\ Len(last'.msg.Body) >= 4
      /\ \A i \in DOMAIN users : users[i].whatsapp_phone # PhoneOf(last'.msg.From)
      /\ \E i \in DOMAIN users : users[i].email = last'.msg.Body[2]) =>
       /\ users' = users
       /\ tokens' = tokens
       /\ expenses' = expenses
       /\ categories' = categories
       /\ last'.exc = ""
       /\ last'.reply = EmailTaken
       /\ last'.sent = 1
       /\ \A i \in DOMAIN users' : users'[i].whatsapp_phone # PhoneOf(last'.msg.From)]_vars

\* An unlinked identity has just tried to register a taken email, with a
\* password that is not the account's.
C22_Witness ==
  /\ last.op = "webhook"
  /\ last.branch = "registro"
  /\ Len(last.msg.Body) >= 4
  /\ \E i \in DOMAIN users :
       /\ users[i].email = last.msg.Body[2]
       /\ users[i].password_hash # hash_password(last.msg.Body[3])
  /\ \A i \in DOMAIN users : users[i].whatsapp_phone # PhoneOf(last.msg.From)
  /\ last.reply = EmailTaken

\* ================================================ extraction-failure claims
\* The situation of a request from a linked identity whose extraction gave
\* no candidate, "" when there was a candidate or nothing was extracted.
NoCandidateCase(req) ==
  LET m == req.msg
      e == req.ext
      branch == dispatch(m.Body, m.NumMedia, m.MediaUrl0, m.MediaContentType0)
      kind == Kind(m.MediaContentType0)
  IN IF branch = "text" /\ e.parsed = NoCandidate THEN "text"
     ELSE IF branch = "media" /\ e.download_ok
       THEN IF kind = "image" /\ e.parsed = NoCandidate THEN "image"
            ELSE IF kind = "audio" /\ e.transcription = <<>> THEN "audio"
            ELSE IF kind = "audio" /\ e.parsed = NoCandidate THEN "transcript"
            ELSE IF kind = "pdf" /\ e.transactions = <<>> THEN "pdf"
            ELSE ""
     ELSE ""

\* The failure message of each situation.
FailureMessage(case) ==
  CASE case = "text" -> "No pude identificar un gasto"
    [] case = "image" -> "No pude leer el ticket"
    [] case = "audio" -> "No pude transcribir el audio"
    [] case = "transcript" -> "No pude identificar un gasto (transcrito)"
    [] case = "pdf" -> "No encontré transacciones en el PDF"

\* C23: when extraction gives no usable candidate for a message of a
\* linked identity (text without an amount, unreadable image,
\* untranscribable audio, transcript without an amount, document without
\* transactions), the reply is the failure message of that situation, not
\* the generic apology, and no expense or category row is written.
C23_ExtractionFailureAnswered ==
  [][(/\ last'.op = "webhook"
      /\ last'.user # 0
      /\ NoCandidateCase(last') # "") =>
       /\ last'.reply = FailureMessage(NoCandidateCase(last'))
       /\ last'.reply # Apology
       /\ last'.exc = ""
       /\ last'.sent = 1
       /\ last'.saves = <<>>
       /\ expenses' = expenses
       /\ categories' = categories]_vars

\* A linked identity sent audio whose transcript held no amount.
C23_Witness ==
  /\ last.op = "webhook"
  /\ last.user # 0
  /\ NoCandidateCase(last) = "transcript"
  /\ last.reply = FailureMessage("transcript")

\* ================================================== production deployment
\* The webhook as deployed: environment = production, the account SID set,
\* and the auth token either unset or one of two secrets.
Secrets == {"", "secret-1", "secret-2"}

\* A command and a free text from the linked identity; a PIN, a
\* registration and a greeting from an unlinked one.
ProductionMessages ==
  {Form("whatsapp:+521", b, 0, NULL, NULL) :
     b \in {<<"resumen">>, <<"gasté", "150", "en", "el", "súper">>}}
  \cup {Form("whatsapp:+522", b, 0, NULL, NULL) :
          b \in {<<"222222">>, <<"hola">>,
                 <<"registro", "c@x.mx", "secreta", "Ana">>}}

\* The string the provider signs for a message.
SignedString(m) == <<WebhookUrl>> \o sorted_params(m, FieldNames)

\* Signature headers a request for m can carry: none, the signature of m
\* under each key, and the signature of another message under each key.
Signatures(m) ==
  {NoSignature}
  \cup {hmac_sha1_b64(k, SignedString(x)) :
          k \in Secrets,
          x \in {m, Form(m.From, <<"hola">>, 0, NULL, NULL)}}

InitProduction ==
  /\ users = TwoUsers
  /\ tokens = <<[user_id |-> 2, token |-> "222222", expires_at |-> PinTtl,
                 used |-> FALSE]>>
  /\ categories = seed_global_categories(<<>>)
  /\ expenses = <<>>
  /\ now = 0
  /\ redeemedBy = <<NULL>>
  /\ last = Request("start", NoMessage, 0, "", "", "", 0, <<>>, "", 0)
  /\ inflight = <<>>
  /\ settings \in {Settings("production", "AC1", k) : k \in Secrets}

\* Requests, with what the extractor returns and what the provider does
\* with the reply; the store does not fail here.
ProductionRequest(m, e, d, signature) ==
  /\ e.fault = ""
  /\ whatsapp_webhook(m, [e EXCEPT !.send = d], signature)

NextProduction ==
  \E m \in ProductionMessages :
    \E e \in Externals(m, now, {[amount |-> 150, currency |-> "MXN",
                                  description |-> "super",
                                  category_name |-> "Alimentación", date |-> 1]}),
       d \in Deliveries, signature \in Signatures(m) :
      ProductionRequest(m, e, d, signature)

SpecProduction == InitProduction /\ [][NextProduction]_vars

\* =========================================================== webhook claims
\* C24: in production, a webhook request whose signature does not verify
\* is rejected with 403 before the sender is looked up: the store is left
\* as it is, no extractor is called, no identity is bound and no reply is
\* sent.
C24_BadSignatureRejected ==
  [][(/\ last'.op = "webhook"
      /\ settings.environment = "production"
      /\ Truthy(settings.twilio_auth_token)
      /\ last'.signature #
           hmac_sha1_b64(settings.twilio_auth_token, SignedString(last'.msg))) =>
       /\ last'.status = 403
       /\ last'.branch = "rejected"
       /\ last'.user = 0
       /\ last'.saves = <<>>
       /\ last'.sent = 0
       /\ UNCHANGED <<users, tokens, categories, expenses, redeemedBy>>]_vars

\* A valid PIN arrived under the signature of another message and was
\* turned away: its token is still unused.
C24_Witness ==
  /\ last.op = "webhook"
  /\ last.status = 403
  /\ last.msg.Body = <<"222222">>
  /\ last.signature =
       hmac_sha1_b64(settings.twilio_auth_token,
                     SignedString(Form(last.msg.From, <<"hola">>, 0, NULL, NULL)))
  /\ \E i \in DOMAIN tokens : tokens[i].token = "222222" /\ ~tokens[i].used

\* C25: outside development mode a payload is processed only if its
\* signature is the HMAC, under the shared secret, of the callback URL
\* followed by the form fields sorted by name and concatenated, whatever
\* value the shared secret is configured with.
C25_ProcessedOnlyIfSigned ==
  (last.op = "webhook" /\ settings.environment = "production"
     /\ last.status # 403) =>
    last.signature = hmac_sha1_b64(settings.twilio_auth_token, SignedString(last.msg))

\* C26: a failed outbound send (error status, transport error, timeout)
\* is swallowed: the webhook still answers 200, and what the request
\* committed (the identity bound and the token marked used, the new
\* expense) stays in the store.
C26_SendFailureSwallowed ==
  [][(/\ last'.op = "webhook"
      /\ last'.sent = 1
      /\ Truthy(settings.twilio_account_sid)
      /\ Truthy(settings.twilio_auth_token)
      /\ last'.ext.send # "ok") =>
       /\ last'.status = 200
       /\ (last'.branch = "pin" /\ last'.reply = LinkOk) =>
            \E i \in DOMAIN tokens :
              /\ tokens[i].token = last'.msg.Body[1]
              /\ ~tokens[i].used
              /\ tokens'[i].used
              /\ users'[tokens[i].user_id].whatsapp_phone = PhoneOf(last'.msg.From)
       /\ (last'.branch = "registro" /\ last'.reply = Welcome) =>
            /\ Len(users') = Len(users) + 1
            /\ users'[Len(users')].whatsapp_phone = PhoneOf(last'.msg.From)
       /\ \A k \in DOMAIN last'.saves :
            last'.saves[k].exc = "" => last'.saves[k].expense \in DOMAIN expenses']_vars

\* The provider answered the confirmation of a redeemed PIN with an error
\* status; the identity is bound.
C26_Witness ==
  /\ last.op = "webhook"
  /\ last.branch = "pin"
  /\ last.reply = LinkOk
  /\ last.ext.send = "HTTPStatusError"
  /\ Truthy(settings.twilio_auth_token)
  /\ last.status = 200
  /\ \E i \in DOMAIN users : users[i].whatsapp_phone = PhoneOf(last.msg.From)

\* ========================================================= expense lifecycle
\* Row ids are never reused, so a deleted row keeps its place in the table
\* as Deleted: a row of no account, which no query of an account matches.
Deleted ==
  [user_id |-> 0, amount |-> 0, currency |-> "", description |-> "",
   category_id |-> 0, date |-> NoDate, source |-> "", raw_input |-> <<>>,
   file_hash |-> NULL]

\* A deletion that does not look at the owner.
delete_expense_any_owner(exps, expense_id, user_id) ==
  IF expense_id \in DOMAIN exps /\ exps[expense_id] # Deleted
    THEN [deleted |-> TRUE, expenses |-> [exps EXCEPT ![expense_id] = Deleted]]
  ELSE [deleted |-> FALSE, expenses |-> exps]

\* delete_expense(expense_id, user_id, db)
delete_expense(exps, expense_id, user_id) ==
  LET rows == {i \in DOMAIN exps : i = expense_id /\ exps[i].user_id = user_id}
  IN IF rows = {}
       THEN [deleted |-> FALSE, expenses |-> exps]
     ELSE [deleted |-> TRUE, expenses |-> [exps EXCEPT ![expense_id] = Deleted]]

\* DELETE /api/expenses/{expense_id} by the authenticated account.
remove_expense(expense_id, current_user) ==
  LET r == delete_expense(expenses, expense_id, current_user)
  IN /\ expenses' = r.expenses
     /\ last' = [op |-> "remove-expense", user |-> current_user,
                 expense_id |-> expense_id,
                 status |-> IF r.deleted THEN 204 ELSE 404]
     /\ UNCHANGED <<users, tokens, categories, now, redeemedBy, inflight, settings>>

\* Reports, a free text and a PIN from the first identity; a PIN, a
\* greeting and a registration from the second.
StoreMessages ==
  {Form("whatsapp:+521", b, 0, NULL, NULL) :
     b \in {<<"resumen">>, <<"semana">>, <<"últimos">>, <<"ayuda">>,
            <<"gasté", "150", "en", "el", "súper">>, <<"222222">>}}
  \cup {Form("whatsapp:+522", b, 0, NULL, NULL) :
          b \in {<<"222222">>, <<"hola">>,
                 <<"registro", "c@x.mx", "secreta", "Ana">>}}

\* One account linked to +521, alone or with a second account, and the
\* stored expenses of the accounts there are.
InitStore ==
  /\ users \in {SubSeq(TwoUsers, 1, 1), TwoUsers}
  /\ tokens = <<>>
  /\ categories = seed_global_categories(<<>>)
  /\ expenses = SelectSeq(SubSeq(StoredExpenses, 3, 5),
                          LAMBDA e : e.user_id \in DOMAIN users)
  /\ now = 0
  /\ redeemedBy = <<>>
  /\ last = [op |-> "start"]
  /\ inflight = <<>>
  /\ settings = Development

\* A chat message handled while the store works.
StoreMessage(m, ext) ==
  /\ ext.fault = ""
  /\ whatsapp_webhook(m, ext, NoSignature)

NextStore ==
  \/ \E u \in DOMAIN users : generate_link_pin(u, "222222")
  \/ \E m \in StoreMessages :
       \E ext \in Externals(m, now, {[amount |-> 150, currency |-> "MXN",
                                      description |-> "super",
                                      category_name |-> "Alimentación", date |-> 5]}) :
         StoreMessage(m, ext)
  \/ \E u \in DOMAIN users :
       create_expense(u, [amount |-> 150, currency |-> "MXN", description |-> "super",
                          category_name |-> "Mascotas", date |-> 5], "")
  \/ \E u \in DOMAIN users, expense_id \in 1..(Len(expenses) + 1) :
       remove_expense(expense_id, u)

SpecStore == InitStore /\ [][NextStore]_vars

\* C27: a written expense never changes, and it is removed only by a
\* delete request of its owner: the request removes the row if and only if
\* it exists and belongs to the requesting account, and otherwise answers
\* not-found and leaves the table as it is; ingest, reports, linking,
\* registration and token issuance leave every existing expense alone.
C27_ExpensesImmutableUntilOwnerDeletes ==
  [][/\ Len(expenses') >= Len(expenses)
     /\ \A i \in DOMAIN expenses :
          \/ expenses'[i] = expenses[i]
          \/ /\ last'.op = "remove-expense"
             /\ last'.expense_id = i
             /\ expenses[i].user_id = last'.user
             /\ expenses'[i] = Deleted
     /\ last'.op = "remove-expense" =>
          LET owned == /\ last'.expense_id \in DOMAIN expenses
                       /\ expenses[last'.expense_id] # Deleted
                       /\ expenses[last'.expense_id].user_id = last'.user
          IN /\ owned => (last'.status = 204 /\ expenses'[last'.expense_id] = Deleted)
             /\ ~owned => (last'.status = 404 /\ expenses' = expenses)]_vars

\* After an owner's deletion, an account asked to delete a row of another
\* account and was told the row does not exist.
C27_Witness ==
  /\ last.op = "remove-expense"
  /\ last.status = 404
  /\ last.expense_id \in DOMAIN expenses
  /\ expenses[last.expense_id] # Deleted
  /\ expenses[last.expense_id].user_id # last.user
  /\ \E j \in DOMAIN expenses : expenses[j] = Deleted

\* ============================================================ catalog claims
\* C28: a candidate whose category name is outside the catalog of twelve
\* names is filed under "Otros": the resolver returns the global row
\* "Otros" and mints no row with the foreign name.
C28_ForeignNameFiledUnderOtros ==
  (/\ last.op = "resolve"
   /\ \A i \in DOMAIN default_categories : default_categories[i] # last.name) =>
     /\ last.exc = ""
     /\ categories[last.id].name = "Otros"
     /\ categories[last.id].user_id = 0
     /\ Len(categories) = last.rows_before
     /\ \A i \in DOMAIN categories : categories[i].name # last.name

\* ============================================================ upload claims
\* The three upload endpoints, each posted every kind of file.
NextUpload ==
  \/ \E u \in DOMAIN users, file \in Files,
        parsed \in {NoCandidate, CHOOSE c \in ExpenseParsed(now) : c.date = 5} :
       upload_image(u, file, parsed, "")
  \/ \E u \in DOMAIN users, file \in Files,
        transcription \in {<<>>, <<"gasté", "150">>},
        parsed \in {NoCandidate, CHOOSE c \in ExpenseParsed(now) : c.date = 5} :
       upload_audio(u, file, transcription, parsed, "")
  \/ \E u \in DOMAIN users, file \in Files, transactions \in Transactions(now) :
       upload_pdf(u, file, transactions, "")

SpecUpload == InitIngest /\ [][NextUpload]_vars

\* The declared content type fits the endpoint.
Fits(op, content_type) ==
  Truthy(content_type)
  /\ Kind(content_type) = (CASE op = "upload-image" -> "image"
                             [] op = "upload-audio" -> "audio"
                             [] op = "upload-pdf" -> "pdf")

\* C29: on the upload endpoints (image, audio, PDF) a file over 20 MB, or
\* a declared content type that does not fit the endpoint, is rejected
\* before any extractor or transcription call, and nothing is stored.
C29_MalformedUploadRejectedFirst ==
  (/\ last.op \in {"upload-image", "upload-audio", "upload-pdf"}
   /\ \/ last.file.size > MAX_FILE_SIZE
      \/ ~Fits(last.op, last.file.content_type)) =>
    /\ last.status \in {400, 413}
    /\ last.calls = 0
    /\ last.saves = <<>>

\* ============================================================ report claims
\* The body is one of the report commands.
IsReport(body) ==
  \/ IsCmd(body, "resumen")
  \/ IsCmd(body, "semana")
  \/ IsCmd(body, "últimos")
  \/ IsCmd(body, "ultimos")
  \/ IsCmd(body, "ayuda")
  \/ IsCmd(body, "help")

\* C30: a report command (monthly summary, weekly summary, last five
\* expenses, help) from a linked identity leaves the store as it is: no
\* expense, category, link token or account field is created, changed or
\* deleted, and the sender stays linked to the same account.
C30_ReportsLeaveStoreUnchanged ==
  [][(/\ last'.op = "webhook"
      /\ IsReport(last'.msg.Body)
      /\ \E i \in DOMAIN users : users[i].whatsapp_phone = PhoneOf(last'.msg.From)) =>
       /\ UNCHANGED <<users, tokens, categories, expenses, redeemedBy>>
       /\ last'.saves = <<>>
       /\ last'.exc = ""
       /\ last'.user \in DOMAIN users'
       /\ users'[last'.user].whatsapp_phone = PhoneOf(last'.msg.From)]_vars

\* A linked identity asked for its last expenses while an unused link
\* token was pending and got the list.
C30_Witness ==
  /\ last.op = "webhook"
  /\ last.user # 0
  /\ IsCmd(last.msg.Body, "últimos")
  /\ last.reply = "Últimos gastos"
  /\ \E i \in DOMAIN tokens : ~tokens[i].used
  /\ \E i \in DOMAIN expenses : expenses[i].user_id = last.user

\* ======================================================== file-hash claims
\* compute_file_hash applied to two files drawn from the modelled ones.
HashRequest(files, digests) ==
  [op |-> "hash", files |-> files, digests |-> digests]

InitHash ==
  /\ users = <<Account("a@x.mx", "clave-a", "USD", NULL)>>
  /\ tokens = <<>>
  /\ categories = [i \in DOMAIN default_categories |->
                     [name |-> default_categories[i], user_id |-> 0]]
  /\ expenses = <<>>
  /\ now = 0
  /\ redeemedBy = <<>>
  /\ \E b1, b2 \in FileBytes : last = HashRequest(<<b1, b2>>, <<>>)
  /\ inflight = <<>>
  /\ settings = Development

\* The next file is hashed.
hash_next ==
  /\ Len(last.digests) < Len(last.files)
  /\ last' = HashRequest(last.files,
                         Append(last.digests,
                                compute_file_hash(last.files[Len(last.digests) + 1])))
  /\ UNCHANGED <<users, tokens, categories, expenses, now, redeemedBy, inflight,
                 settings>>

NextHash == hash_next

SpecHash == InitHash /\ [][NextHash]_vars

\* C31: compute_file_hash gives equal digests for equal bytes and different
\* digests for different bytes, and every digest, the empty file's
\* included, is a string of 64 hexadecimal characters.
C31_FileHashIsFixedLengthDigest ==
  \A i, j \in DOMAIN last.digests :
    LET chars == hex_chars(sha256_of(last.files[i]))
    IN /\ last.files[i] = last.files[j] => last.digests[i] = last.digests[j]
       /\ last.files[i] # last.files[j] => last.digests[i] # last.digests[j]
       /\ Len(last.digests[i]) = 64
       /\ last.digests[i] = join(chars)
       /\ Len(chars) = 64
       /\ \A k \in DOMAIN chars : chars[k] \in {HexDigits[d] : d \in DOMAIN HexDigits}

\* The empty file and a file of more than one block have been hashed; the
\* empty file's digest is the published SHA-256 of the empty message.
C31_Witness ==
  /\ last.files = <<<<>>, LongFile>>
  /\ Len(last.digests) = 2
  /\ last.digests[1] =
       "e3b0c44298fc1c149afbf4c8996fb92427ae41e4649b934ca495991b7852b855"
  /\ last.digests[2] # last.digests[1]
\* ==================================================== detection-order claims
\* The save_expense calls made by a request (none for a request that
\* makes no such call).
SavesOf(req) ==
  IF "saves" \in DOMAIN req THEN req.saves ELSE <<>>

C33_BindingIsPermanent ==
  [][\A u \in DOMAIN users :
       users[u].whatsapp_phone # NULL =>
         users'[u].whatsapp_phone = users[u].whatsapp_phone]_vars

\* C33 amended: an identity bound to an account stays bound to it until
\* another identity redeems a token of that account, which moves the
\* account to the redeemer; until then every message of the identity is
\* handled as linked for that account and redeems nothing, a six-digit
\* body included, whatever tokens are issued or redeemed for other accounts.
C33_BindingLastsUntilRelinked ==
  [][\A u \in DOMAIN users :
       LET p == users[u].whatsapp_phone
       IN p # NULL =>
            /\ \/ users'[u].whatsapp_phone = p
               \/ /\ last'.op = "webhook"
                  /\ PhoneOf(last'.msg.From) # p
                  /\ users'[u].whatsapp_phone = PhoneOf(last'.msg.From)
                  /\ \E i \in DOMAIN tokens :
                       /\ tokens[i].user_id = u
                       /\ tokens[i].token = last'.msg.Body[1]
                       /\ ~tokens[i].used
                       /\ tokens'[i].used
            /\ (last'.op = "webhook" /\ PhoneOf(last'.msg.From) = p) =>
                 /\ last'.user = u
                 /\ last'.branch \notin {"pin", "registro", "onboarding"}
                 /\ UNCHANGED <<users, tokens, redeemedBy>>]_vars

\* A linked identity has sent the six digits of a live token and was
\* handled as linked.
C33_Witness ==
  /\ last.op = "webhook"
  /\ last.user \in DOMAIN users
  /\ users[last.user].whatsapp_phone = PhoneOf(last.msg.From)
  /\ IsPin(last.msg.Body)
  /\ \E i \in DOMAIN tokens :
       /\ tokens[i].token = last.msg.Body[1]
       /\ ~tokens[i].used
       /\ tokens[i].expires_at > now
\* ============================================ concurrent unlinked requests
\* A webhook request of an unlinked identity, step by step: each await of
\* the handler is a point where another request can run. pc is the next
\* step; link_token and user are the rows the request has loaded or written.
Unlinked(pc, phone, body, link_token, user, reply, exc) ==
  [op |-> "webhook", pc |-> pc, phone |-> phone, body |-> body,
   link_token |-> link_token, user |-> user, reply |-> reply, exc |-> exc]

\* A users table without the unique index on whatsapp_phone.
whatsapp_phone_taken_unchecked(us, u, phone) ==
  FALSE

\* unique=True on users.whatsapp_phone: a row other than u holds phone.
whatsapp_phone_taken(us, u, phone) ==
  \E v \in DOMAIN us : v # u /\ us[v].whatsapp_phone = phone

\* Texts an unlinked identity sends: the two live codes and a registration
\* under each of two new emails.
RaceBodies ==
  {<<"111111">>, <<"222222">>,
   <<"registro", "c@x.mx", "secreta", "Ana">>,
   <<"registro", "d@x.mx", "secreta", "Ana">>}

RaceMessages ==
  {Form(f, b, 0, NULL, NULL) : f \in {"whatsapp:+521", "whatsapp:+522"},
                               b \in RaceBodies}

\* Emails of the accounts registered through the web application.
WebEmails == {"a@x.mx", "b@x.mx"}

\* No account yet, or two accounts registered through the web application,
\* neither linked, each holding a live PIN.
InitLinkRace ==
  /\ users \in {<<>>, <<Account("a@x.mx", "clave-a", "USD", NULL),
                        Account("b@x.mx", "clave-b", "MXN", NULL)>>}
  /\ tokens = [u \in DOMAIN users |->
                 [user_id |-> u, token |-> IF u = 1 THEN "111111" ELSE "222222",
                  expires_at |-> PinTtl, used |-> FALSE]]
  /\ categories = seed_global_categories(<<>>)
  /\ expenses = <<>>
  /\ now = 0
  /\ redeemedBy = [u \in DOMAIN users |-> NULL]
  /\ last = [op |-> "start"]
  /\ inflight = <<>>
  /\ settings = Development

\* whatsapp_webhook up to _handle_unlinked: the select by whatsapp_phone
\* finds no account.
webhook_lookup(m) ==
  /\ Len(inflight) < MaxCalls
  /\ {u \in DOMAIN users : users[u].whatsapp_phone = PhoneOf(m.From)} = {}
  /\ inflight' = Append(inflight,
                        Unlinked("select", PhoneOf(m.From), m.Body, 0, 0, "", ""))
  /\ UNCHANGED <<users, tokens, categories, expenses, now, redeemedBy, last, settings>>

\* _handle_unlinked up to its write: the select of the token, or the
\* format test and the select by email, on the committed rows.
unlinked_select(i) ==
  /\ i \in DOMAIN inflight
  /\ inflight[i].op = "webhook"
  /\ inflight[i].pc = "select"
  /\ LET c == inflight[i]
         rows == valid_link_tokens(tokens, c.body[1], now)
         link_token == CHOOSE k \in rows : TRUE
         Reply(text) == [c EXCEPT !.pc = "done", !.reply = text]
         Raise(e) == [c EXCEPT !.pc = "done", !.exc = e]
     IN inflight' =
          [inflight EXCEPT ![i] =
             IF IsPin(c.body)
               THEN IF Cardinality(rows) > 1 THEN Raise("MultipleResultsFound")
                    ELSE IF rows = {} THEN Reply(PinExpired)
                    ELSE [c EXCEPT !.pc = "link", !.link_token = link_token,
                                   !.user = tokens[link_token].user_id]
             ELSE IF IsRegistro(c.body)
               THEN IF Len(c.body) < 4 THEN Reply(BadFormat)
                    ELSE IF existing(users, c.body[2]) # {} THEN Reply(EmailTaken)
                    ELSE IF ~EmailValid(c.body[2]) THEN Raise("ValidationError")
                    ELSE [c EXCEPT !.pc = "register"]
             ELSE Reply(NotLinked)]
  /\ UNCHANGED <<users, tokens, categories, expenses, now, redeemedBy, last, settings>>

\* link_token.user.whatsapp_phone = phone; link_token.used = True;
\* await db.commit(): both rows in one commit, refused as a whole when the
\* store fails or another account holds the identity.
link_commit(i, fault) ==
  /\ i \in DOMAIN inflight
  /\ inflight[i].op = "webhook"
  /\ inflight[i].pc = "link"
  /\ LET c == inflight[i]
         linked == link(users, tokens, redeemedBy, c.link_token, c.phone)
         exc == IF fault = "commit" THEN "OperationalError"
                ELSE IF whatsapp_phone_taken(users, c.user, c.phone)
                  THEN "IntegrityError"
                ELSE ""
     IN IF exc # ""
          THEN /\ inflight' = [inflight EXCEPT ![i] = [c EXCEPT !.pc = "done", !.exc = exc]]
               /\ UNCHANGED <<users, tokens, redeemedBy>>
        ELSE /\ users' = linked.users
             /\ tokens' = linked.tokens
             /\ redeemedBy' = linked.redeemedBy
             /\ inflight' = [inflight EXCEPT ![i] =
                               [c EXCEPT !.pc = "done", !.reply = LinkOk]]
  /\ UNCHANGED <<categories, expenses, now, last, settings>>

\* register_user: db.add(user); await db.commit(). The account is
\* committed without a chat identity; the unique index on email refuses a
\* second account with the same email.
register_commit(i, fault) ==
  /\ i \in DOMAIN inflight
  /\ inflight[i].op = "webhook"
  /\ inflight[i].pc = "register"
  /\ Len(users) < MaxUsers
  /\ LET c == inflight[i]
         exc == IF fault = "commit" THEN "OperationalError"
                ELSE IF existing(users, c.body[2]) # {} THEN "IntegrityError"
                ELSE ""
     IN IF exc # ""
          THEN /\ inflight' = [inflight EXCEPT ![i] = [c EXCEPT !.pc = "done", !.exc = exc]]
               /\ UNCHANGED users
        ELSE /\ users' = Append(users, Account(c.body[2], c.body[3], "MXN", NULL))
             /\ inflight' = [inflight EXCEPT ![i] =
                               [c EXCEPT !.pc = "bind", !.user = Len(users) + 1]]
  /\ UNCHANGED <<tokens, categories, expenses, now, redeemedBy, last, settings>>

\* new_user.whatsapp_phone = phone; await db.commit(): a second commit,
\* refused when the store fails or another account holds the identity.
bind_commit(i, fault) ==
  /\ i \in DOMAIN inflight
  /\ inflight[i].op = "webhook"
  /\ inflight[i].pc = "bind"
  /\ LET c == inflight[i]
         exc == IF fault = "commit" THEN "OperationalError"
                ELSE IF whatsapp_phone_taken(users, c.user, c.phone)
                  THEN "IntegrityError"
                ELSE ""
     IN IF exc # ""
          THEN /\ inflight' = [inflight EXCEPT ![i] = [c EXCEPT !.pc = "done", !.exc = exc]]
               /\ UNCHANGED users
        ELSE /\ users' = [users EXCEPT ![c.user].whatsapp_phone = c.phone]
             /\ inflight' = [inflight EXCEPT ![i] =
                               [c EXCEPT !.pc = "done", !.reply = Welcome]]
  /\ UNCHANGED <<tokens, categories, expenses, now, redeemedBy, last, settings>>

NextLinkRace ==
  \/ \E m \in RaceMessages : webhook_lookup(m)
  \/ \E i \in 1..MaxCalls : unlinked_select(i)
  \/ \E i \in 1..MaxCalls, fault \in {"", "commit"} : link_commit(i, fault)
  \/ \E i \in 1..MaxCalls, fault \in {"", "commit"} : register_commit(i, fault)
  \/ \E i \in 1..MaxCalls, fault \in {"", "commit"} : bind_commit(i, fault)
  \/ \E i \in 1..MaxCalls : respond(i)

SpecLinkRace == InitLinkRace /\ [][NextLinkRace]_vars

\* C34: no two accounts are bound to the same chat identity, concurrent
\* redemptions and registrations from one identity included; and an
\* account's chat identity is written only by the commit of a redemption
\* or by the binding commit of a chat registration, as the sender's.
C34_OneAccountPerIdentity ==
  /\ [](\A u, v \in DOMAIN users :
          (users[u].whatsapp_phone # NULL
             /\ users[u].whatsapp_phone = users[v].whatsapp_phone) => u = v)
  /\ [][\A u \in DOMAIN users' :
          (IF u \in DOMAIN users
             THEN users'[u].whatsapp_phone # users[u].whatsapp_phone
             ELSE users'[u].whatsapp_phone # NULL) =>
            \E i \in DOMAIN inflight :
              /\ inflight[i].pc \in {"link", "bind"}
              /\ inflight[i].user = u
              /\ inflight'[i].reply \in {LinkOk, Welcome}
              /\ users'[u].whatsapp_phone = inflight[i].phone]_vars

\* Two requests of one identity ran side by side; one bound an account,
\* the other was refused at its commit.
C34_Witness ==
  \E i, j \in DOMAIN inflight :
    /\ inflight[i].phone = inflight[j].phone
    /\ inflight[i].pc = "done"
    /\ inflight[j].pc = "done"
    /\ inflight[i].reply \in {LinkOk, Welcome}
    /\ inflight[j].exc = "IntegrityError"
    /\ inflight[i].user # inflight[j].user
    /\ users[inflight[i].user].whatsapp_phone = inflight[i].phone
\* ============================================================ reply claims
\* C35: every message of an unlinked identity that is not refused for its
\* signature is answered with exactly one reply handed to the messaging
\* provider (link confirmation, invalid PIN, registration result or
\* onboarding text) and the webhook responds 200, also when two accounts
\* hold live tokens with the same code and when the registration fields
\* are malformed.
C35_UnlinkedAlwaysAnswered ==
  (/\ last.op = "webhook"
   /\ last.user = 0
   /\ last.branch # "rejected") =>
    /\ last.exc = ""
    /\ last.sent = 1
    /\ last.status = 200
    /\ last.reply \in {LinkOk, PinExpired, BadFormat, EmailTaken, Welcome, NotLinked}
\* ======================================================= atomicity claims
\* A receipt, a voice note, a statement and a free text from the linked
\* identity.
ImportMessages ==
  {Form("whatsapp:+521", <<>>, 1, "https://api.twilio.com/media/1", c) :
     c \in {"image/jpeg", "audio/ogg", "application/pdf"}}
  \cup {Form("whatsapp:+521", <<"gasté", "150", "en", "el", "súper">>, 0, NULL, NULL)}

NextImport ==
  \E m \in ImportMessages : \E ext \in Externals(m, now, ExpenseParsed(now)) :
    whatsapp_webhook(m, ext, NoSignature)

SpecImport == InitIngest /\ [][NextImport]_vars

RepeatedExpenses ==
  Append(StoredExpenses,
         [user_id |-> 1, amount |-> 150, currency |-> "USD",
          description |-> "super", category_id |-> 1, date |-> 5,
          source |-> "text", raw_input |-> <<"gasté", "150">>,
          file_hash |-> NULL])

InitRepeat ==
  /\ users = <<Account("a@x.mx", "clave-a", "USD", "+521"),
               Account("b@x.mx", "clave-b", "MXN", NULL)>>
  /\ tokens = <<[user_id |-> 1, token |-> "111111", expires_at |-> PinTtl,
                 used |-> TRUE]>>
  /\ categories = [i \in DOMAIN default_categories |->
                     [name |-> default_categories[i], user_id |-> 0]]
  /\ expenses = RepeatedExpenses
  /\ now = 0
  /\ redeemedBy = <<"+521">>
  /\ last = Request("start", NoMessage, 0, "", "", "", 0, <<>>, "", 0)
  /\ inflight = <<>>
  /\ settings = Development

NextRepeat ==
  \/ \E m \in ImportMessages : \E ext \in Externals(m, now, ExpenseParsed(now)) :
       whatsapp_webhook(m, ext, NoSignature)
  \/ \E u \in DOMAIN users, parsed \in ExpenseParsed(now), fault \in Faults :
       create_expense(u, parsed, fault)
  \/ \E u \in DOMAIN users, expense_id \in DOMAIN expenses :
       remove_expense(expense_id, u)

SpecRepeat == InitRepeat /\ [][NextRepeat]_vars

\* Rows stored when the call started that an ingest of the same candidate
\* by the same account wrote: same amount, same date, and the currency the
\* candidate names or, if it names none, the account's.
WrittenByIdentical(c) ==
  {i \in 1..c.stored_before :
     /\ expenses[i].user_id = c.user_id
     /\ expenses[i].amount = c.parsed.amount
     /\ expenses[i].date = c.parsed.date
     /\ expenses[i].currency = IF Truthy(c.parsed.currency)
                                 THEN c.parsed.currency ELSE c.currency}

\* C37: an ingest of a candidate with an explicit date, made while the store
\* works and while the expense an identical ingest of the same account wrote
\* is still stored, returns a non-none duplicate, also when the candidate
\* names no currency.
C37_RepeatedIngestFlagged ==
  \A k \in DOMAIN SavesOf(last) :
    LET c == SavesOf(last)[k]
    IN (/\ c.parsed.date # NoDate
        /\ c.fault = ""
        /\ WrittenByIdentical(c) # {}) =>
         /\ c.exc = ""
         /\ c.duplicate # 0

\* ================================================= document-import claims
\* Candidate b falls in the fingerprint window of candidate a: same amount,
\* same currency, dates at most one day apart (a missing date is the time
\* of the import).
InWindow(a, b, t) ==
  LET date(p) == IF p.date # NoDate THEN p.date ELSE t
  IN /\ a.amount = b.amount
     /\ a.currency = b.currency
     /\ date(a) - date(b) <= Day
     /\ date(b) - date(a) <= Day

\* C38: a document import made while the store works ingests its candidates
\* one after another, each committed before the next is screened; a
\* candidate in the fingerprint window of an earlier candidate of the same
\* document is flagged as a duplicate, and duplicates_count counts it.
C38_CandidatesScreenedInTurn ==
  (/\ last.op = "upload-pdf"
   /\ last.n > 0
   /\ \A k \in DOMAIN last.saves : last.saves[k].fault = "") =>
    /\ Len(last.saves) = last.n
    /\ \A k \in DOMAIN last.saves :
         LET c == last.saves[k]
         IN /\ c.exc = ""
            /\ c.expense = c.stored_before + 1
            /\ k > 1 => c.stored_before >= last.saves[k - 1].expense
            /\ \A i \in 1..(k - 1) :
                 InWindow(last.saves[i].parsed, c.parsed, c.now) =>
                   /\ c.duplicate # 0
                   /\ last.duplicates_count > 0

\* ================================================ chat-registration claims
\* Accounts created by a chat registration: every account but those the
\* web application registered.
ChatCreated(us) ==
  {u \in DOMAIN us : us[u].email \notin WebEmails}

\* C39: a chat registration creates the account and binds the sender's
\* identity as one unit: after a welcome reply exactly one account has the
\* email and it is bound to the sender, and in no state, store failures and
\* concurrent registrations from one identity included, is there an account
\* created by chat registration without a chat identity.
C39_RegistrationBindsAsOneUnit ==
  /\ \A u \in ChatCreated(users) : users[u].whatsapp_phone # NULL
  /\ \A i \in DOMAIN inflight :
       inflight[i].reply = Welcome =>
         /\ Cardinality(existing(users, inflight[i].body[2])) = 1
         /\ \A u \in existing(users, inflight[i].body[2]) :
              users[u].whatsapp_phone = inflight[i].phone

\* ======================================================== reporting claims
\* Sequences of the elements of S in descending order of key; rows with
\* equal keys come in any order (the queries name no second sort key).
RECURSIVE order_by_desc(_, _)
order_by_desc(S, key) ==
  IF S = {} THEN {<<>>}
  ELSE UNION {{<<i>> \o s : s \in order_by_desc(S \ {i}, key)} :
              i \in {j \in S : \A k \in S : key[k] <= key[j]}}

\* func.sum over the rows S of column value; 0 for no row (scalar() or 0).
RECURSIVE func_sum(_, _)
func_sum(S, value) ==
  IF S = {} THEN 0
  ELSE LET i == CHOOSE j \in S : TRUE
       IN value[i] + func_sum(S \ {i}, value)

\* offset(.).limit(.) on an ordered result.
Page(s, offset, limit) ==
  SubSeq(s, offset + 1, IF offset + limit < Len(s) THEN offset + limit ELSE Len(s))

\* A listing that does not filter by owner.
list_expenses_any_owner(exps, user_id, page, limit, category_id, date_from, date_to) ==
  LET rows == {i \in DOMAIN exps : exps[i] # Deleted}
  IN {[items |-> [k \in DOMAIN Page(s, (page - 1) * limit, limit) |->
                    <<Page(s, (page - 1) * limit, limit)[k],
                      exps[Page(s, (page - 1) * limit, limit)[k]]>>],
       total |-> Cardinality(rows)] :
      s \in order_by_desc(rows, [i \in rows |-> exps[i].date])}

\* list_expenses: the pages it can return, items as <<id, row>>.
\* category_id = 0 and NoDate are the absent filters.
list_expenses(exps, user_id, page, limit, category_id, date_from, date_to) ==
  LET rows == {i \in DOMAIN exps :
                 /\ exps[i].user_id = user_id
                 /\ category_id # 0 => exps[i].category_id = category_id
                 /\ date_from # NoDate => exps[i].date >= date_from
                 /\ date_to # NoDate => exps[i].date <= date_to}
  IN {[items |-> [k \in DOMAIN Page(s, (page - 1) * limit, limit) |->
                    <<Page(s, (page - 1) * limit, limit)[k],
                      exps[Page(s, (page - 1) * limit, limit)[k]]>>],
       total |-> Cardinality(rows)] :
      s \in order_by_desc(rows, [i \in rows |-> exps[i].date])}

\* _summary_for_period: total, subtotals per category (joined on the
\* category row, largest first) and the five latest rows since start.
summary_for_period(exps, cats, user_id, start, end) ==
  LET rows == {i \in DOMAIN exps :
                 /\ exps[i].user_id = user_id
                 /\ exps[i].date >= start
                 /\ exps[i].date <= end}
      amount == [i \in DOMAIN exps |-> exps[i].amount]
      groups == {c \in DOMAIN cats : \E i \in rows : exps[i].category_id = c}
      subtotal == [c \in groups |->
                     func_sum({i \in rows : exps[i].category_id = c}, amount)]
      since == {i \in DOMAIN exps :
                  exps[i].user_id = user_id /\ exps[i].date >= start}
  IN {[total |-> func_sum(rows, amount),
       by_category |-> [k \in DOMAIN g |->
                          [name |-> cats[g[k]].name, total |-> subtotal[g[k]]]],
       recent |-> [k \in DOMAIN Page(r, 0, 5) |-> <<r[k], exps[r[k]]>>],
       start |-> start, end |-> end] :
      g \in order_by_desc(groups, subtotal),
      r \in order_by_desc(since, [i \in since |-> exps[i].date])}

\* A month of thirty days.
Month == 30 * Day

\* get_monthly_summary: from the first instant of the month to now.
get_monthly_summary(exps, cats, user_id, t) ==
  summary_for_period(exps, cats, user_id, t - (t % Month), t)

\* get_weekly_summary: the seven days up to now.
get_weekly_summary(exps, cats, user_id, t) ==
  summary_for_period(exps, cats, user_id, t - 7 * Day, t)

\* get_all_categories: the rows returned, as <<id, row>> (ordered by name).
get_all_categories(cats, user_id) ==
  {<<c, cats[c]>> : c \in {d \in DOMAIN cats : cats[d].user_id \in {0, user_id}}}

\* Times at which reports are asked for: with every stored expense in the
\* last seven days, and with the oldest ones outside them.
ReportTimes == {9, 16}

\* Both accounts with stored expenses, one of each filed under a category
\* of its own.
InitReports ==
  /\ users = TwoUsers
  /\ tokens = <<>>
  /\ categories = seed_global_categories(<<>>)
                    \o <<[name |-> "Mascotas", user_id |-> 1],
                         [name |-> "Mascotas", user_id |-> 2]>>
  /\ expenses = [StoredExpenses EXCEPT
                   ![2].category_id = Len(default_categories) + 1,
                   ![5].category_id = Len(default_categories) + 2]
  /\ now \in ReportTimes
  /\ redeemedBy = <<>>
  /\ last = [op |-> "start"]
  /\ inflight = <<>>
  /\ settings = Development

\* What a read-only request of an account returned.
Report(op, current_user, result) ==
  /\ last' = [op |-> op, user |-> current_user, result |-> result]
  /\ UNCHANGED <<users, tokens, categories, expenses, now, redeemedBy, inflight,
                 settings>>

\* GET /api/expenses, and the chat command "últimos" (page 1, limit 5).
get_expenses(current_user, page, limit, category_id) ==
  \E r \in list_expenses(expenses, current_user, page, limit, category_id,
                         NoDate, NoDate) :
    Report("list", current_user, r)

\* GET /api/stats/monthly and the chat command "resumen".
monthly_stats(current_user) ==
  \E r \in get_monthly_summary(expenses, categories, current_user, now) :
    Report("summary", current_user, r)

\* GET /api/stats/weekly and the chat command "semana".
weekly_stats(current_user) ==
  \E r \in get_weekly_summary(expenses, categories, current_user, now) :
    Report("summary", current_user, r)

\* GET /api/categories
list_categories(current_user) ==
  Report("categories", current_user, get_all_categories(categories, current_user))

NextReports ==
  \/ \E u \in DOMAIN users, page \in 1..2, limit \in {2, 5, 20}, category_id \in 0..1 :
       get_expenses(u, page, limit, category_id)
  \/ \E u \in DOMAIN users : monthly_stats(u)
  \/ \E u \in DOMAIN users : weekly_stats(u)
  \/ \E u \in DOMAIN users : list_categories(u)
  \/ \E u \in DOMAIN users :
       create_expense(u, CHOOSE c \in ExpenseParsed(now) : c.date = 5, "")
  \/ \E u \in DOMAIN users, expense_id \in DOMAIN expenses :
       remove_expense(expense_id, u)

SpecReports == InitReports /\ [][NextReports]_vars

\* Everything account a can be shown in the current state.
View(a) ==
  [list |-> list_expenses(expenses, a, 1, 20, 0, NoDate, NoDate),
   five |-> list_expenses(expenses, a, 1, 5, 0, NoDate, NoDate),
   monthly |-> get_monthly_summary(expenses, categories, a, now),
   weekly |-> get_weekly_summary(expenses, categories, a, now),
   categories |-> get_all_categories(categories, a)]

\* C40: what an account is shown holds only its own expenses: every item
\* of a list, of the last five and of a summary's recent items is owned by
\* the requesting account, totals and subtotals add up its own expenses of
\* the period, and its category list holds only global rows and its own;
\* and no request of another account changes anything it can be shown.
C40_ReportsScopedToAccount ==
  /\ [](/\ last.op = "list" =>
             /\ \A k \in DOMAIN last.result.items :
                  last.result.items[k][2].user_id = last.user
             /\ last.result.total <=
                  Cardinality({i \in DOMAIN expenses :
                                 expenses[i].user_id = last.user})
        /\ last.op = "summary" =>
             LET own == {i \in DOMAIN expenses :
                           /\ expenses[i].user_id = last.user
                           /\ expenses[i].date >= last.result.start
                           /\ expenses[i].date <= last.result.end}
                 amount == [i \in DOMAIN expenses |-> expenses[i].amount]
                 shares == last.result.by_category
             IN /\ \A k \in DOMAIN last.result.recent :
                     last.result.recent[k][2].user_id = last.user
                /\ last.result.total = func_sum(own, amount)
                /\ func_sum(DOMAIN shares, [k \in DOMAIN shares |-> shares[k].total])
                     = func_sum(own, amount)
                /\ \A k \in DOMAIN shares :
                     \E i \in own :
                       categories[expenses[i].category_id].name = shares[k].name
        /\ last.op = "categories" =>
             \A c \in last.result : c[2].user_id \in {0, last.user})
  /\ [][\A a \in DOMAIN users :
          (last'.op \in {"create-expense", "remove-expense"} /\ last'.user # a) =>
            View(a)' = View(a)]_vars

\* Account 1 was shown a summary with a positive total, both of its
\* categories and five or fewer recent items while account 2 holds
\* expenses in the same period and an expense has been deleted.
C40_Witness ==
  /\ last.op = "summary"
  /\ last.user = 1
  /\ last.result.total > 0
  /\ Len(last.result.by_category) = 2
  /\ last.result.recent # <<>>
  /\ \E i \in DOMAIN expenses :
       /\ expenses[i].user_id = 2
       /\ expenses[i].date >= last.result.start
       /\ expenses[i].date <= last.result.end
  /\ \E i \in DOMAIN expenses : expenses[i] = Deleted
====
